---- MODULE Spec2Model ----
(***************************************************************************)
(* track2stem processor (src/processor/app.py): the job lifecycle of the   *)
(* /process handler, its two auxiliary threads (read_output,               *)
(* estimate_progress), the /cancel handler, the two process-wide maps      *)
(* processing_status and active_processes, and the descriptor table and    *)
(* files the handlers touch.                                               *)
(*                                                                         *)
(* Threads interleave at the granularity of their accesses to shared       *)
(* state: one step per write of processing_status, per critical section of *)
(* process_lock / progress_lock, per descriptor operation and per blocking *)
(* call (process.wait, Thread.join).  A join or wait with a timeout may    *)
(* return by timeout.                                                      *)
(***************************************************************************)
EXTENDS Integers, Sequences, FiniteSets, TLC

(***************************************************************************)
(* Bounds of the model.                                                    *)
(***************************************************************************)
\* number of concurrent /cancel requests
NumCancellers == 1
\* number of clock ticks a job can observe
MaxTicks == 1
\* number of descriptor slots of the process's descriptor table
NumFds == 3
\* longest job id, in characters, among the enumerated ids
MaxIdLen == 2
\* most path segments given to safe_join
MaxSegs == 2
\* largest percentage of a tqdm bar among the lines the tool prints
MaxPercent == 125
\* number of clock ticks a job can observe in the specification of the
\* progress mapping: past the estimated duration
MaxLongTicks == 3

(***************************************************************************)
(* Program constants.                                                      *)
(***************************************************************************)
\* {0,254} in JOB_ID_PATTERN
MaxIdTail == 254
\* estimated_duration = 300
EstimatedDuration == 300
\* current < 85
EstimatorGuard == 85
\* min(75, ...) and * 75
EstimatorSpan == 75
\* last_progress = 10, and the base of both mappings
BaseProgress == 10
\* lowest descriptor number above stdin, stdout, stderr
FirstFd == 3
\* seconds per clock tick: half of the estimated duration
TickSeconds == EstimatedDuration \div 2

(***************************************************************************)
(* Identifiers.  A job id is a sequence of characters.                     *)
(***************************************************************************)
Lower == {"a","b","c","d","e","f","g","h","i","j","k","l","m",
          "n","o","p","q","r","s","t","u","v","w","x","y","z"}
Upper == {"A","B","C","D","E","F","G","H","I","J","K","L","M",
          "N","O","P","Q","R","S","T","U","V","W","X","Y","Z"}
Digit == {"0","1","2","3","4","5","6","7","8","9"}
AlNum == Lower \cup Upper \cup Digit

\* JOB_ID_PATTERN = ^[a-zA-Z0-9][a-zA-Z0-9\-]{0,254}$ used with .match():
\* Python's $ also matches just before a newline that ends the string.
PatternBody(s) ==
    /\ Len(s) >= 1
    /\ Len(s) <= 1 + MaxIdTail
    /\ s[1] \in AlNum
    /\ \A i \in 2..Len(s) : s[i] \in AlNum \cup {"-"}

JobIdPatternMatch(s) ==
    \/ PatternBody(s)
    \/ /\ Len(s) >= 2
       /\ s[Len(s)] = "\n"
       /\ PatternBody(SubSeq(s, 1, Len(s) - 1))

\* the object None, which is no string: a sequence holding no character
NoId == << "None" >>

\* validate_job_id: `not job_id` rejects None and the empty string
validate_job_id(s) == s # NoId /\ Len(s) > 0 /\ JobIdPatternMatch(s)

\* the job id of the /process request of the one-request specifications
Jobs == { <<"j", "1">> }
\* the job id of a second /process request, served beside the first in the
\* two-request specification
OtherJobs == { <<"j", "2">> }
AllJobs == Jobs \cup OtherJobs
\* the ids /cancel requests are issued for: the jobs (known or not yet
\* submitted) and an id the pattern rejects
InvalidId == <<"a", ";", "r", "m">>
CancelIds == Jobs \cup {InvalidId}

Cancellers == 1..NumCancellers
FdNums == FirstFd..(FirstFd + NumFds - 1)

(***************************************************************************)
(* Dictionaries: processing_status and active_processes are Python dicts,  *)
(* modelled as functions whose domain is the set of keys present.          *)
(***************************************************************************)
DictPut(d, k, v) == [x \in (DOMAIN d) \cup {k} |-> IF x = k THEN v ELSE d[x]]
DictDel(d, k) == [x \in (DOMAIN d) \ {k} |-> d[x]]
EmptyDict == [x \in {} |-> 0]

Snapshot(st, pr, sg) == [status |-> st, progress |-> pr, stage |-> sg]

VARIABLES
    processing_status,  \* dict: job id -> snapshot
    active_processes,   \* dict: job id -> [master_fd]
    process_lock,       \* 0 when free, else the canceller holding it
    hpc,                \* per job: position of the /process handler
    hresp,              \* per job: the handler's HTTP response
    return_code,        \* per job: what process.wait() returned
    full_output,        \* per job: '\n'.join(output_lines) of line 533
    child,              \* per job: "none" | "running" | "exited"
    child_rc,           \* per job: the child's exit code
    stop_threads,       \* per job: the threading.Event
    master_fd,          \* per job: the descriptor number pty.openpty gave
    last_progress,      \* per job: the nonlocal last_progress
    progress_lock,      \* per job: "free" or the thread holding it
    rpc,                \* per job: position of read_output
    rline,              \* per job: the line read_output is parsing
    output_lines,       \* per job: the lines captured so far
    epc,                \* per job: position of estimate_progress
    etp,                \* per job: time_progress of the current iteration
    elapsed,            \* per job: clock ticks since start_time
    input_file,         \* per job: the uploaded input file exists
    demucs_dir,         \* per job: the tool's output directory exists
    job_output_dir,     \* per job: OUTPUT_FOLDER/job_id exists
    fd_table,           \* descriptor number -> owner of the open descriptor
    close_calls,        \* per job: os.close calls issued on master_fd
    cpc,                \* per canceller: position of cancel_job
    cjob,               \* per canceller: the job id of the request
    cresp,              \* per canceller: the response
    cancel_killed,      \* per job: a cancel terminated the running child
    form,               \* per job: request.form of the /process request
    output_files,       \* per job: the dict output_files of line 576
    mix_returncode,     \* per job: mix_result.returncode, -1 before the mix
    job_files,          \* per job: the files inside OUTPUT_FOLDER/job_id
    demucs_files,       \* per job: the files inside the tool's directory
    demucs_output,      \* per job: the job whose tool directory the handler uses
    id_arg,             \* the argument of a call of validate_job_id
    id_ret,             \* what that call returned
    join_arg,           \* the arguments of a call of safe_join
    join_ret,           \* what that call returned or raised
    status_arg,         \* the job id of the last /status request
    status_ret          \* the response to that request

vars == << processing_status, active_processes, process_lock, hpc, hresp,
           return_code, full_output, child, child_rc, stop_threads, master_fd,
           last_progress, progress_lock, rpc, rline, output_lines, epc, etp,
           elapsed, input_file, demucs_dir, job_output_dir, fd_table,
           close_calls, cpc, cjob, cresp, cancel_killed, form, output_files,
           mix_returncode, job_files, demucs_files, demucs_output, id_arg, id_ret, join_arg,
           join_ret, status_arg, status_ret >>

statusVars == << processing_status >>
registryVars == << active_processes, process_lock >>
handlerVars == << hpc, hresp, return_code, full_output >>
childVars == << child, child_rc >>
readerVars == << rpc, rline, output_lines >>
estimatorVars == << epc, etp >>
progressVars == << last_progress, progress_lock >>
fileVars == << input_file, demucs_dir, job_output_dir >>
fdVars == << fd_table, close_calls, master_fd >>
cancelVars == << cpc, cjob, cresp, cancel_killed >>
outputVars == << output_files, mix_returncode, job_files, demucs_files, demucs_output >>
callVars == << id_arg, id_ret, join_arg, join_ret, status_arg, status_ret >>

(***************************************************************************)
(* The form of a /process request and its validation (lines 174-238).      *)
(* request.form is a dict: a function whose domain is the set of fields    *)
(* the client sent.  A job id and a numeric option are sequences of        *)
(* characters; an enumerated option is a string.                           *)
(***************************************************************************)
ALLOWED_OUTPUT_FORMATS == {"mp3", "wav", "flac"}
ALLOWED_STEM_MODES == {"all", "isolate"}
ALLOWED_STEMS == {"vocals", "drums", "bass", "guitar", "piano", "other"}
ALLOWED_MODELS == {"htdemucs", "htdemucs_ft", "htdemucs_6s", "hdemucs_mmi",
                   "mdx", "mdx_extra", "mdx_q", "mdx_extra_q"}
SIX_STEM_MODELS == {"htdemucs_6s"}
ALLOWED_CLIP_MODES == {"rescale", "clamp"}
\* set(range(0, 11))
ALLOWED_SHIFTS == 0..10
\* the numbers of ALLOWED_SEGMENTS; None is tested apart (line 232)
ALLOWED_SEGMENTS == {8, 10, 15, 20, 25, 30, 40, 60}
\* the numbers of ALLOWED_OVERLAPS, in thousandths
ALLOWED_OVERLAPS == {100, 150, 200, 250, 300, 350, 400, 500}

\* request.form.get(key, default)
FormGet(f, key, default) == IF key \in DOMAIN f THEN f[key] ELSE default

\* str.lower() on the option values of the model
ToLower(s) ==
    CASE s = "MP3" -> "mp3"
      [] s = "WAV" -> "wav"
      [] s = "Isolate" -> "isolate"
      [] s = "Vocals" -> "vocals"
      [] s = "HTDemucs" -> "htdemucs"
      [] s = "Clamp" -> "clamp"
      [] OTHER -> s

DigitValue(c) ==
    CASE c = "0" -> 0 [] c = "1" -> 1 [] c = "2" -> 2 [] c = "3" -> 3
      [] c = "4" -> 4 [] c = "5" -> 5 [] c = "6" -> 6 [] c = "7" -> 7
      [] c = "8" -> 8 [] c = "9" -> 9

AllDigits(s) == Len(s) >= 1 /\ \A i \in 1..Len(s) : s[i] \in Digit

RECURSIVE DigitsValue(_)
DigitsValue(s) ==
    IF Len(s) = 0 THEN 0
    ELSE 10 * DigitsValue(SubSeq(s, 1, Len(s) - 1)) + DigitValue(s[Len(s)])

\* int(text): an optional sign and decimal digits; anything else raises
\* ValueError (ok = FALSE)
ParseInt(s) ==
    LET signed == Len(s) >= 1 /\ s[1] \in {"+", "-"}
        body == IF signed THEN Tail(s) ELSE s
    IN  IF AllDigits(body)
        THEN [ok |-> TRUE,
              val |-> IF signed /\ s[1] = "-" THEN 0 - DigitsValue(body)
                      ELSE DigitsValue(body)]
        ELSE [ok |-> FALSE, val |-> 0]

\* float(text) for unsigned decimal texts with at most three fractional
\* digits, in thousandths; anything else raises ValueError (ok = FALSE)
ParseFloat(s) ==
    LET dots == {i \in 1..Len(s) : s[i] = "."}
        dot == IF dots = {} THEN Len(s) + 1 ELSE CHOOSE i \in dots : TRUE
        whole == SubSeq(s, 1, dot - 1)
        frac == SubSeq(s, dot + 1, Len(s))
        pad == CASE Len(frac) = 0 -> 1000 [] Len(frac) = 1 -> 100
                 [] Len(frac) = 2 -> 10 [] OTHER -> 1
    IN  IF /\ Cardinality(dots) <= 1
           /\ Len(frac) <= 3
           /\ Len(whole) + Len(frac) >= 1
           /\ Len(whole) = 0 \/ AllDigits(whole)
           /\ Len(frac) = 0 \/ AllDigits(frac)
        THEN [ok |-> TRUE,
              val |-> 1000 * DigitsValue(whole)
                      + (IF Len(frac) = 0 THEN 0 ELSE pad * DigitsValue(frac))]
        ELSE [ok |-> FALSE, val |-> 0]

\* an optional number: None is the empty set, a number n is {n}
None == {}
Some(n) == {n}

\* lines 174-179: the fields with their defaults, lowercased
Unknown == <<"u", "n", "k", "n", "o", "w", "n">>
job_id(f) == FormGet(f, "job_id", Unknown)
output_format(f) == ToLower(FormGet(f, "output_format", "mp3"))
stem_mode(f) == ToLower(FormGet(f, "stem_mode", "all"))
isolate_stem(f) == ToLower(FormGet(f, "isolate_stem", "vocals"))
model(f) == ToLower(FormGet(f, "model", "htdemucs_6s"))
clip_mode(f) == ToLower(FormGet(f, "clip_mode", "rescale"))

\* lines 182-185: a text that does not parse becomes 0
shifts(f) ==
    LET p == ParseInt(FormGet(f, "shifts", <<"0">>))
    IN  IF p.ok THEN p.val ELSE 0

\* lines 187-193: an empty text or one that does not parse becomes None
segment(f) ==
    LET segment_raw == FormGet(f, "segment", << >>)
        p == ParseInt(segment_raw)
    IN  IF segment_raw # << >> /\ p.ok THEN Some(p.val) ELSE None

\* lines 195-201
overlap(f) ==
    LET overlap_raw == FormGet(f, "overlap", << >>)
        p == ParseFloat(overlap_raw)
    IN  IF overlap_raw # << >> /\ p.ok THEN Some(p.val) ELSE None

\* lines 204-238: the first check that fails gives the error of the 400
\* response; "ok" when every check passes
Validate(f) ==
    IF ~validate_job_id(job_id(f)) THEN "Invalid job ID"
    ELSE IF output_format(f) \notin ALLOWED_OUTPUT_FORMATS THEN "Invalid output format"
    ELSE IF stem_mode(f) \notin ALLOWED_STEM_MODES THEN "Invalid stem mode"
    ELSE IF isolate_stem(f) \notin ALLOWED_STEMS THEN "Invalid isolate stem"
    ELSE IF model(f) \notin ALLOWED_MODELS THEN "Invalid model"
    ELSE IF clip_mode(f) \notin ALLOWED_CLIP_MODES THEN "Invalid clip mode"
    ELSE IF shifts(f) \notin ALLOWED_SHIFTS THEN "Invalid shifts value"
    ELSE IF segment(f) # None /\ ~(segment(f) \subseteq ALLOWED_SEGMENTS)
         THEN "Invalid segment value"
    ELSE IF overlap(f) # None /\ ~(overlap(f) \subseteq ALLOWED_OVERLAPS)
         THEN "Invalid overlap value"
    ELSE "ok"

(***************************************************************************)
(* The requests of the model.                                              *)
(***************************************************************************)
\* a request that sends only its job id, and one with a disallowed format
BaseForms(j) == { [job_id |-> j], [job_id |-> j, output_format |-> "exe"] }

\* requests of every stem mode, stem count and output format
OutputForms(j) ==
    { [job_id |-> j],
      [job_id |-> j, output_format |-> "wav", model |-> "htdemucs"],
      [job_id |-> j, output_format |-> "flac", model |-> "mdx"],
      [job_id |-> j, stem_mode |-> "isolate", model |-> "htdemucs"],
      [job_id |-> j, stem_mode |-> "isolate", isolate_stem |-> "drums",
       output_format |-> "wav"],
      [job_id |-> j, stem_mode |-> "isolate", isolate_stem |-> "guitar",
       model |-> "htdemucs"],
      [job_id |-> j, output_format |-> "exe"] }

\* the job ids clients send: well formed, ending in a newline, empty,
\* starting with a hyphen, a path, with a space, with a metacharacter
RawIds ==
    { <<"j", "1">>, <<"j", "-", "1">>, <<"j", "1", "\n">>, << >>, <<"-", "a">>,
      <<".", ".", "/", "x">>, <<"a", " ", "b">>, <<"a", ";", "r", "m">> }

\* the raw forms clients send: every field in and out of its allow-list,
\* numeric texts that do not parse, fields left out
RawForms ==
    [ job_id : { <<"j", "1">> },
      output_format : {"mp3", "MP3", "exe"},
      stem_mode : {"all", "isolate", "solo"},
      isolate_stem : {"vocals", "guitar", "kazoo"},
      model : {"htdemucs", "htdemucs_6s", "evil"},
      clip_mode : {"clamp", "wrap"},
      shifts : { <<"0">>, <<"1", "0">>, <<"1", "1">>, <<"a", "b", "c">>, <<"-", "1">> },
      segment : { << >>, <<"1", "0">>, <<"9">>, <<"x", "y", "z">> },
      overlap : { << >>, <<"0", ".", "2", "5">>, <<"0", ".", "6">>,
                  <<"n", "o", "t", "-", "a">> } ]
    \cup { [job_id |-> id] : id \in RawIds }
    \cup { [output_format |-> "mp3"] }

\* a request that is not served carries its job id and no option
WithOthers(g) == [j \in AllJobs |-> IF j \in Jobs THEN g[j] ELSE [job_id |-> j]]

\* one form per request, each carrying the id of its job
Tied(F) ==
    { WithOthers(g) :
        g \in { h \in [Jobs -> UNION { F[j] : j \in Jobs }] : \A j \in Jobs : h[j] \in F[j] } }

NoResponse == [code |-> 0, body |-> "none", details |-> {}]
Response(c, b, d) == [code |-> c, body |-> b, details |-> d]

\* the state of the module after import (lines 59-74), no request served;
\* requests: the /cancel requests that will arrive
InitWith(requests) ==
    /\ processing_status = EmptyDict
    /\ active_processes = EmptyDict
    /\ process_lock = 0
    /\ hpc = [j \in AllJobs |-> "idle"]
    /\ hresp = [j \in AllJobs |-> NoResponse]
    /\ return_code = [j \in AllJobs |-> 0]
    /\ full_output = [j \in AllJobs |-> {}]
    /\ child = [j \in AllJobs |-> "none"]
    /\ child_rc = [j \in AllJobs |-> 0]
    /\ stop_threads = [j \in AllJobs |-> FALSE]
    /\ master_fd = [j \in AllJobs |-> 0]
    /\ last_progress = [j \in AllJobs |-> 0]
    /\ progress_lock = [j \in AllJobs |-> "free"]
    /\ rpc = [j \in AllJobs |-> "off"]
    /\ rline = [j \in AllJobs |-> [kind |-> "none", n |-> 0]]
    /\ output_lines = [j \in AllJobs |-> {}]
    /\ epc = [j \in AllJobs |-> "off"]
    /\ etp = [j \in AllJobs |-> 0]
    /\ elapsed = [j \in AllJobs |-> 0]
    /\ input_file = [j \in AllJobs |-> FALSE]
    /\ demucs_dir = [j \in AllJobs |-> FALSE]
    /\ job_output_dir = [j \in AllJobs |-> FALSE]
    /\ fd_table = [n \in FdNums |-> << >>]
    /\ close_calls = [j \in AllJobs |-> 0]
    /\ cpc = [c \in requests |-> "idle"]
    /\ cjob = [c \in requests |-> <<>>]
    /\ cresp = [c \in requests |-> NoResponse]
    /\ cancel_killed = [j \in AllJobs |-> FALSE]
    /\ output_files = [j \in AllJobs |-> EmptyDict]
    /\ mix_returncode = [j \in AllJobs |-> -1]
    /\ job_files = [j \in AllJobs |-> {}]
    /\ demucs_files = [j \in AllJobs |-> {}]
    /\ demucs_output = [j \in AllJobs |-> j]

InitProgram == InitWith(Cancellers)

\* the response of /status: a code and a JSON object
StatusResponse(c, b) == [code |-> c, body |-> b]

\* no /status request yet
NoStatusCall ==
    /\ status_arg = << >>
    /\ status_ret = StatusResponse(0, [error |-> "none"])

\* no call of validate_job_id or safe_join from outside the handlers
NoCall ==
    /\ NoStatusCall
    /\ id_arg = << >>
    /\ id_ret = "pending"
    /\ join_arg = [base_dir |-> << >>, paths |-> << >>]
    /\ join_ret = [kind |-> "pending", path |-> << >>]

Init == InitProgram /\ form \in Tied([j \in Jobs |-> BaseForms(j)]) /\ NoCall

\* the same program, serving the requests of OutputForms
InitOutputs == InitProgram /\ form \in Tied([j \in Jobs |-> OutputForms(j)]) /\ NoCall

\* the same program, receiving the raw forms
InitAdmission ==
    InitProgram /\ form \in { WithOthers(g) : g \in [Jobs -> RawForms] } /\ NoCall


(***************************************************************************)
(* Helpers.                                                                *)
(***************************************************************************)
SetStatus(j, snap) == processing_status' = DictPut(processing_status, j, snap)

\* a descriptor slot holds its owner: no one, a job, or another request
FreeSlot == << >>
OtherOwner == << "other request" >>
FreeFds(t) == {n \in FdNums : t[n] = FreeSlot}
LowestFree(t) == CHOOSE n \in FreeFds(t) : \A m \in FreeFds(t) : n <= m

\* os.close(fd) inside try/except: a closed descriptor raises EBADF, which
\* is swallowed; an open one is closed, whoever owns it now.
OsClose(t, n) == IF t[n] = FreeSlot THEN t ELSE [t EXCEPT ![n] = FreeSlot]

\* time_progress = 10 + min(75, int((elapsed / estimated_duration) * 75))
Min(a, b) == IF a < b THEN a ELSE b
TimeProgress(ticks) ==
    BaseProgress
      + Min(EstimatorSpan, (ticks * TickSeconds * EstimatorSpan) \div EstimatedDuration)

\* mapped = 10 + int(pct * 0.80)
MapPercent(pct) == BaseProgress + ((pct * 4) \div 5)

(***************************************************************************)
(* The /process handler, process_audio.                                    *)
(***************************************************************************)
\* lines 164-243: every check passes; the status entry is initialised under
\* the job id of the form
Admit(j) ==
    /\ hpc[j] = "idle"
    /\ Validate(form[j]) = "ok"
    /\ SetStatus(job_id(form[j]), Snapshot("uploading", 5, "Receiving file"))
    /\ hpc' = [hpc EXCEPT ![j] = "admitted"]
    /\ UNCHANGED << form, outputVars, callVars, registryVars, hresp, return_code, full_output, childVars, stop_threads,
                    progressVars, readerVars, estimatorVars, elapsed, fileVars,
                    fdVars, cancelVars >>

\* lines 204-238: a check fails: 400 with the error of that check
RejectRequest(j) ==
    /\ hpc[j] = "idle"
    /\ Validate(form[j]) # "ok"
    /\ hresp' = [hresp EXCEPT ![j] = Response(400, Validate(form[j]), {})]
    /\ hpc' = [hpc EXCEPT ![j] = "done"]
    /\ UNCHANGED << form, outputVars, callVars, statusVars, registryVars, return_code, full_output, childVars,
                    stop_threads, progressVars, readerVars, estimatorVars,
                    elapsed, fileVars, fdVars, cancelVars >>

\* lines 245-251: empty or disallowed filename, 400 after the status write
RejectFile(j) ==
    /\ hpc[j] = "admitted"
    /\ hresp' = [hresp EXCEPT ![j] = Response(400, "File type not allowed", {})]
    /\ hpc' = [hpc EXCEPT ![j] = "done"]
    /\ UNCHANGED << form, outputVars, callVars, statusVars, registryVars, return_code, full_output, childVars,
                    stop_threads, progressVars, readerVars, estimatorVars,
                    elapsed, fileVars, fdVars, cancelVars >>

\* lines 253-281: the upload is saved
SaveUpload(j) ==
    /\ hpc[j] = "admitted"
    /\ input_file' = [input_file EXCEPT ![j] = TRUE]
    /\ SetStatus(j, Snapshot("processing", 10, "File saved"))
    /\ hpc' = [hpc EXCEPT ![j] = "saved"]
    /\ UNCHANGED << form, outputVars, callVars, registryVars, hresp, return_code, full_output, childVars, stop_threads,
                    progressVars, readerVars, estimatorVars, elapsed,
                    demucs_dir, job_output_dir, fdVars, cancelVars >>

\* line 276: file.save raises (an unexpected exception before the spawn)
SaveFails(j) ==
    /\ hpc[j] = "admitted"
    /\ hpc' = [hpc EXCEPT ![j] = "except"]
    /\ UNCHANGED << form, outputVars, callVars, statusVars, registryVars, hresp, return_code, full_output, childVars,
                    stop_threads, progressVars, readerVars, estimatorVars,
                    elapsed, fileVars, fdVars, cancelVars >>

\* lines 283-289: the job's output directory, then "Loading AI model"
MakeOutputDir(j) ==
    /\ hpc[j] = "saved"
    /\ job_output_dir' = [job_output_dir EXCEPT ![j] = TRUE]
    /\ SetStatus(j, Snapshot("processing", 15, "Loading AI model"))
    /\ hpc' = [hpc EXCEPT ![j] = "loading"]
    /\ UNCHANGED << form, outputVars, callVars, registryVars, hresp, return_code, full_output, childVars, stop_threads,
                    progressVars, readerVars, estimatorVars, elapsed,
                    input_file, demucs_dir, fdVars, cancelVars >>

\* lines 292-325: the command line, then "Starting AI separation..."
BuildCommand(j) ==
    /\ hpc[j] = "loading"
    /\ SetStatus(j, Snapshot("processing", 10, "Starting AI separation"))
    /\ hpc' = [hpc EXCEPT ![j] = "starting"]
    /\ UNCHANGED << form, outputVars, callVars, registryVars, hresp, return_code, full_output, childVars, stop_threads,
                    progressVars, readerVars, estimatorVars, elapsed, fileVars,
                    fdVars, cancelVars >>

\* lines 329-340: pty.openpty takes the two lowest free descriptors, Popen
\* starts the child on the slave, the parent closes the slave
Spawn(j) ==
    /\ hpc[j] = "starting"
    /\ Cardinality(FreeFds(fd_table)) >= 2
    /\ master_fd' = [master_fd EXCEPT ![j] = LowestFree(fd_table)]
    /\ fd_table' = [fd_table EXCEPT ![LowestFree(fd_table)] = j]
    /\ child' = [child EXCEPT ![j] = "running"]
    /\ hpc' = [hpc EXCEPT ![j] = "spawned"]
    /\ UNCHANGED << form, outputVars, callVars, statusVars, registryVars, hresp, return_code, full_output, child_rc,
                    stop_threads, progressVars, readerVars, estimatorVars,
                    elapsed, fileVars, close_calls, cancelVars >>

\* lines 343-505: the registry entry under process_lock, the tracking
\* variables, and both threads started
Register(j) ==
    /\ hpc[j] = "spawned"
    /\ process_lock = 0
    /\ active_processes' = DictPut(active_processes, j, [master_fd |-> master_fd[j]])
    /\ last_progress' = [last_progress EXCEPT ![j] = BaseProgress]
    /\ rpc' = [rpc EXCEPT ![j] = "loop"]
    /\ epc' = [epc EXCEPT ![j] = "loop"]
    /\ hpc' = [hpc EXCEPT ![j] = "waiting"]
    /\ UNCHANGED << form, outputVars, callVars, statusVars, process_lock, hresp, return_code, full_output, childVars,
                    stop_threads, progress_lock, rline, output_lines, etp,
                    elapsed, fileVars, fdVars, cancelVars >>

\* line 509: process.wait returns the exit code of the child
WaitReturn(j) ==
    /\ hpc[j] = "waiting"
    /\ child[j] = "exited"
    /\ return_code' = [return_code EXCEPT ![j] = child_rc[j]]
    /\ hpc' = [hpc EXCEPT ![j] = "stopping"]
    /\ UNCHANGED << form, outputVars, callVars, statusVars, registryVars, hresp, full_output, childVars, stop_threads,
                    progressVars, readerVars, estimatorVars, elapsed, fileVars,
                    fdVars, cancelVars >>

\* lines 510-516: the 30 minute timeout expires with the child running:
\* process.kill(), stop_threads.set(), os.close(master_fd)
WaitTimeout(j) ==
    /\ hpc[j] = "waiting"
    /\ child[j] = "running"
    /\ child' = [child EXCEPT ![j] = "exited"]
    /\ child_rc' = [child_rc EXCEPT ![j] = -9]
    /\ stop_threads' = [stop_threads EXCEPT ![j] = TRUE]
    /\ fd_table' = OsClose(fd_table, master_fd[j])
    /\ close_calls' = [close_calls EXCEPT ![j] = @ + 1]
    /\ hpc' = [hpc EXCEPT ![j] = "tjoin"]
    /\ UNCHANGED << form, outputVars, callVars, statusVars, registryVars, hresp, return_code, full_output,
                    progressVars, readerVars, estimatorVars, elapsed, fileVars,
                    master_fd, cancelVars >>

\* lines 524-529: stop_threads.set(), os.close(master_fd)
StopAndClose(j) ==
    /\ hpc[j] = "stopping"
    /\ stop_threads' = [stop_threads EXCEPT ![j] = TRUE]
    /\ fd_table' = OsClose(fd_table, master_fd[j])
    /\ close_calls' = [close_calls EXCEPT ![j] = @ + 1]
    /\ hpc' = [hpc EXCEPT ![j] = "join"]
    /\ UNCHANGED << form, outputVars, callVars, statusVars, registryVars, hresp, return_code, full_output, childVars,
                    progressVars, readerVars, estimatorVars, elapsed, fileVars,
                    master_fd, cancelVars >>

ThreadsDone(j) == rpc[j] = "done" /\ epc[j] = "done"
AfterJoin(pc) == IF pc = "join" THEN "check" ELSE "t_unreg"

\* lines 517-518 and 530-531: both threads ended within their join windows
Join(j) ==
    /\ hpc[j] \in {"join", "tjoin"}
    /\ ThreadsDone(j)
    /\ hpc' = [hpc EXCEPT ![j] = AfterJoin(hpc[j])]
    /\ UNCHANGED << form, outputVars, callVars, statusVars, registryVars, hresp, return_code, full_output, childVars,
                    stop_threads, progressVars, readerVars, estimatorVars,
                    elapsed, fileVars, fdVars, cancelVars >>

\* the same lines: a join window (10 s, 5 s, 2 s) ends with a thread still
\* running; the thread is left behind
JoinAbandon(j) ==
    /\ hpc[j] \in {"join", "tjoin"}
    /\ ~ThreadsDone(j)
    /\ hpc' = [hpc EXCEPT ![j] = AfterJoin(hpc[j])]
    /\ UNCHANGED << form, outputVars, callVars, statusVars, registryVars, hresp, return_code, full_output, childVars,
                    stop_threads, progressVars, readerVars, estimatorVars,
                    elapsed, fileVars, fdVars, cancelVars >>

\* the timeout path without the deletion of lines 519-521
TimeoutFailKeepsEntry(j) ==
    /\ hpc[j] = "t_unreg"
    /\ SetStatus(j, Snapshot("failed", 0, "Timeout"))
    /\ hresp' = [hresp EXCEPT ![j] = Response(500, "Processing timeout", {})]
    /\ hpc' = [hpc EXCEPT ![j] = "done"]
    /\ UNCHANGED << form, outputVars, callVars, registryVars, return_code, full_output, childVars,
                    stop_threads, progressVars, readerVars, estimatorVars,
                    elapsed, fileVars, fdVars, cancelVars >>

\* lines 519-522 and 704-708: the registry entry is deleted under the lock,
\* TimeoutExpired is raised and caught: status failed, 500
TimeoutFail(j) ==
    /\ hpc[j] = "t_unreg"
    /\ process_lock = 0
    /\ active_processes' = DictDel(active_processes, j)
    /\ SetStatus(j, Snapshot("failed", 0, "Timeout"))
    /\ hresp' = [hresp EXCEPT ![j] = Response(500, "Processing timeout", {})]
    /\ hpc' = [hpc EXCEPT ![j] = "done"]
    /\ UNCHANGED << form, outputVars, callVars, process_lock, return_code, full_output, childVars, stop_threads,
                    progressVars, readerVars, estimatorVars, elapsed, fileVars,
                    fdVars, cancelVars >>

\* lines 533-538: full_output is built; non-zero return code, status failed
FailNonZero(j) ==
    /\ hpc[j] = "check"
    /\ return_code[j] # 0
    /\ full_output' = [full_output EXCEPT ![j] = output_lines[j]]
    /\ SetStatus(j, Snapshot("failed", 0, "Processing failed"))
    /\ hpc' = [hpc EXCEPT ![j] = "nz_unreg"]
    /\ UNCHANGED << form, outputVars, callVars, registryVars, hresp, return_code, childVars, stop_threads,
                    progressVars, readerVars, estimatorVars, elapsed, fileVars,
                    fdVars, cancelVars >>

\* lines 539-546: the registry entry is deleted under the lock, 500 with the
\* captured output as details
UnregisterFailed(j) ==
    /\ hpc[j] = "nz_unreg"
    /\ process_lock = 0
    /\ active_processes' = DictDel(active_processes, j)
    /\ hresp' = [hresp EXCEPT ![j] = Response(500, "Processing failed", full_output[j])]
    /\ hpc' = [hpc EXCEPT ![j] = "done"]
    /\ UNCHANGED << form, outputVars, callVars, statusVars, process_lock, return_code, full_output, childVars,
                    stop_threads, progressVars, readerVars, estimatorVars,
                    elapsed, fileVars, fdVars, cancelVars >>

\* line 567: the directories of the model's output root, one per job whose
\* tool has written and whose handler has not yet removed it
ModelDirContents(j) ==
    {k \in AllJobs : demucs_dir[k] /\ model(form[k]) = model(form[j])}

\* lines 555-573: the expected directory {job_id}_{name} when it exists
\* (the alternate path of line 561 names the same directory for an upload
\* whose name carries the job id); else contents[0] of the model's output
\* root, os.listdir giving the entries in arbitrary order; else the expected
\* path, which does not exist
DemucsOutputs(j) ==
    IF demucs_dir[j] \/ ModelDirContents(j) = {} THEN {j} ELSE ModelDirContents(j)

\* lines 533, 548-573: full_output is built; return code 0, "AI separation
\* complete"; the tool's directory is looked up
Organize(j) ==
    /\ hpc[j] = "check"
    /\ return_code[j] = 0
    /\ full_output' = [full_output EXCEPT ![j] = output_lines[j]]
    /\ SetStatus(j, Snapshot("processing", 90, "AI separation complete"))
    /\ \E dir \in DemucsOutputs(j) : demucs_output' = [demucs_output EXCEPT ![j] = dir]
    /\ hpc' = [hpc EXCEPT ![j] = "assemble"]
    /\ UNCHANGED << form, output_files, mix_returncode, job_files, demucs_files,
                    callVars, registryVars, hresp, return_code, childVars, stop_threads,
                    progressVars, readerVars, estimatorVars, elapsed, fileVars,
                    fdVars, cancelVars >>

\* all_stems without the branch for the six-stem models
all_stems_four(m) == {"vocals", "drums", "bass", "other"}

\* lines 578-581
all_stems(m) ==
    IF m \in SIX_STEM_MODELS
    THEN {"vocals", "drums", "bass", "guitar", "piano", "other"}
    ELSE {"vocals", "drums", "bass", "other"}

\* lines 256-260 and 582
demucs_output_fmt(f) == IF output_format(f) = "mp3" THEN "mp3" ELSE "wav"
demucs_ext(f) == IF demucs_output_fmt(f) = "wav" THEN "wav" ELSE "mp3"

\* os.path.exists(demucs_output/stem.ext) for some ext of [demucs_ext, 'mp3', 'wav']
StemExists(j, stem) == \E file \in demucs_files[demucs_output[j]] : file.stem = stem
\* the first such ext
StemExt(j, stem) ==
    LET exts == {file.ext : file \in {x \in demucs_files[demucs_output[j]] : x.stem = stem}}
    IN  IF demucs_ext(form[j]) \in exts THEN demucs_ext(form[j])
        ELSE IF "mp3" \in exts THEN "mp3" ELSE "wav"

\* dst: job_output_dir/{original_name_no_ext}_t2s_{key}.{ext}
OutputPath(j, key, ext) ==
    [dir |-> job_id(form[j]), name |-> "original_name_no_ext", key |-> key, ext |-> ext]

\* lines 595-602 and 653-660: .flac after a conversion, else the ext found
DstExt(j, stem) ==
    IF output_format(form[j]) = "flac" THEN "flac" ELSE StemExt(j, stem)

\* the stems the loops of lines 592-605 and 649-663 find and relocate
Relocated(j) ==
    {stem \in (IF stem_mode(form[j]) = "isolate" THEN {isolate_stem(form[j])}
               ELSE all_stems(model(form[j]))) : StemExists(j, stem)}

\* lines 609-616: stem_files
stem_files(j) ==
    {stem \in all_stems(model(form[j])) \ {isolate_stem(form[j])} : StemExists(j, stem)}

\* line 618: the mixer runs
Mixes(j) == stem_mode(form[j]) = "isolate" /\ stem_files(j) # {}

\* line 620
backing_name(f) == IF isolate_stem(f) = "vocals" THEN "instrumental" ELSE "backing"

\* output_files after lines 587-663
Collected(j, mix_rc) ==
    LET keys == Relocated(j) \cup (IF mix_rc = 0 THEN {backing_name(form[j])} ELSE {})
    IN  [key \in keys |->
           IF key \in Relocated(j) THEN OutputPath(j, key, DstExt(j, key))
           ELSE OutputPath(j, key, output_format(form[j]))]

\* lines 575-667: every stem found is moved or converted into the job's
\* output directory, in isolate mode the mixer writes the combined track
\* (mix_rc is its return code, -1 when it does not run), then "Cleaning up";
\* a move needs the directory, and so does a mixer that succeeds
Assemble(j, mix_rc) ==
    /\ hpc[j] = "assemble"
    /\ Relocated(j) # {} => job_output_dir[j]
    /\ IF Mixes(j) THEN mix_rc \in {0, 1} ELSE mix_rc = -1
    /\ mix_rc = 0 => job_output_dir[j]
    /\ output_files' = [output_files EXCEPT ![j] = Collected(j, mix_rc)]
    /\ mix_returncode' = [mix_returncode EXCEPT ![j] = mix_rc]
    /\ job_files' = [job_files EXCEPT ![j] =
                       @ \cup {Collected(j, mix_rc)[key] : key \in DOMAIN Collected(j, mix_rc)}]
    /\ demucs_files' = [demucs_files EXCEPT ![demucs_output[j]] =
                          {file \in @ : file.stem \notin Relocated(j)}]
    /\ SetStatus(j, Snapshot("processing", 95, "Cleaning up"))
    /\ hpc' = [hpc EXCEPT ![j] = "cleanup"]
    /\ UNCHANGED << form, demucs_output, callVars, registryVars, hresp, return_code, full_output,
                    childVars, stop_threads, progressVars, readerVars,
                    estimatorVars, elapsed, fileVars, fdVars, cancelVars >>

\* the position of a stem in the lists of lines 579 and 581: the order in
\* which the loop of line 649 takes the stems
StemIndex(stem) ==
    CASE stem = "vocals" -> 1 [] stem = "drums" -> 2 [] stem = "bass" -> 3
      [] stem = "guitar" -> 4 [] stem = "piano" -> 5 [] stem = "other" -> 6

\* the stems relocated before the loop reaches the stem `failed`
ProcessedBefore(j, failed) ==
    {stem \in Relocated(j) : StemIndex(stem) < StemIndex(failed)}

\* output_files when the operation on `failed` raises
PartlyCollected(j, failed) ==
    [key \in ProcessedBefore(j, failed) |-> OutputPath(j, key, DstExt(j, key))]

\* convert_to_flac removing src_path before it tests the return code
AssembleFailsLosingSource(j, failed) ==
    /\ hpc[j] = "assemble"
    /\ failed \in Relocated(j)
    /\ ProcessedBefore(j, failed) # {} => job_output_dir[j]
    /\ output_files' = [output_files EXCEPT ![j] = PartlyCollected(j, failed)]
    /\ job_files' = [job_files EXCEPT ![j] =
                       @ \cup {PartlyCollected(j, failed)[key] :
                                 key \in DOMAIN PartlyCollected(j, failed)}]
    /\ demucs_files' = [demucs_files EXCEPT ![demucs_output[j]] =
                          {file \in @ : file.stem \notin ProcessedBefore(j, failed) \cup {failed}}]
    /\ hpc' = [hpc EXCEPT ![j] = "except"]
    /\ UNCHANGED << form, mix_returncode, demucs_output, callVars, statusVars, registryVars, hresp,
                    return_code, full_output, childVars, stop_threads, progressVars,
                    readerVars, estimatorVars, elapsed, fileVars, fdVars, cancelVars >>

\* lines 82-92 and 592-605, 649-663: the stems before `failed` are relocated;
\* on `failed`, convert_to_flac raises because ffmpeg returned non-zero
\* (line 89, src_path is not removed) or shutil.move raises (the job's output
\* directory is gone); the exception leaves the loop
AssembleFails(j, failed) ==
    /\ hpc[j] = "assemble"
    /\ failed \in Relocated(j)
    /\ ProcessedBefore(j, failed) # {} => job_output_dir[j]
    /\ output_files' = [output_files EXCEPT ![j] = PartlyCollected(j, failed)]
    /\ job_files' = [job_files EXCEPT ![j] =
                       @ \cup {PartlyCollected(j, failed)[key] :
                                 key \in DOMAIN PartlyCollected(j, failed)}]
    /\ demucs_files' = [demucs_files EXCEPT ![demucs_output[j]] =
                          {file \in @ : file.stem \notin ProcessedBefore(j, failed)}]
    /\ hpc' = [hpc EXCEPT ![j] = "except"]
    /\ UNCHANGED << form, mix_returncode, demucs_output, callVars, statusVars, registryVars, hresp,
                    return_code, full_output, childVars, stop_threads, progressVars,
                    readerVars, estimatorVars, elapsed, fileVars, fdVars, cancelVars >>

\* lines 669-688: the tool's directory and the input file are removed,
\* status completed
Cleanup(j) ==
    /\ hpc[j] = "cleanup"
    /\ demucs_dir' = [demucs_dir EXCEPT ![demucs_output[j]] = FALSE]
    /\ demucs_files' = [demucs_files EXCEPT ![demucs_output[j]] = {}]
    /\ input_file' = [input_file EXCEPT ![j] = FALSE]
    /\ SetStatus(j, Snapshot("completed", 100, "Complete!"))
    /\ hpc' = [hpc EXCEPT ![j] = "unreg"]
    /\ UNCHANGED << form, output_files, mix_returncode, job_files, demucs_output, callVars,
                    registryVars, hresp, return_code, full_output, childVars,
                    stop_threads, progressVars, readerVars, estimatorVars,
                    elapsed, job_output_dir, fdVars, cancelVars >>

\* lines 691-702: the registry entry is deleted under the lock, 200
UnregisterCompleted(j) ==
    /\ hpc[j] = "unreg"
    /\ process_lock = 0
    /\ active_processes' = DictDel(active_processes, j)
    /\ hresp' = [hresp EXCEPT ![j] = Response(200, "completed", output_files[j])]
    /\ hpc' = [hpc EXCEPT ![j] = "done"]
    /\ UNCHANGED << form, outputVars, callVars, statusVars, process_lock, return_code, full_output, childVars,
                    stop_threads, progressVars, readerVars, estimatorVars,
                    elapsed, fileVars, fdVars, cancelVars >>

\* lines 709-714: any other exception: status failed, 500
ExceptFail(j) ==
    /\ hpc[j] = "except"
    /\ SetStatus(j, Snapshot("failed", 0, "Error"))
    /\ hresp' = [hresp EXCEPT ![j] = Response(500, "Internal server error", {})]
    /\ hpc' = [hpc EXCEPT ![j] = "done"]
    /\ UNCHANGED << form, outputVars, callVars, registryVars, return_code, full_output, childVars, stop_threads,
                    progressVars, readerVars, estimatorVars, elapsed, fileVars,
                    fdVars, cancelVars >>


(***************************************************************************)
(* The child process (demucs) and the clock.                               *)
(***************************************************************************)
ExitCodes == {0, 1}

\* what the tool writes on success: one file per stem of its model, in the
\* format of the command line (--mp3 or wav)
ToolStems(m) ==
    IF m = "htdemucs_6s"
    THEN {"vocals", "drums", "bass", "guitar", "piano", "other"}
    ELSE {"vocals", "drums", "bass", "other"}
ToolOutput(f) == {[stem |-> st, ext |-> demucs_output_fmt(f)] : st \in ToolStems(model(f))}

\* the tool ends by itself: on success its output directory exists and
\* holds the stems
ChildExit(j, code) ==
    /\ child[j] = "running"
    /\ child' = [child EXCEPT ![j] = "exited"]
    /\ child_rc' = [child_rc EXCEPT ![j] = code]
    /\ demucs_dir' = [demucs_dir EXCEPT ![j] = (code = 0) \/ demucs_dir[j]]
    /\ demucs_files' = [demucs_files EXCEPT ![j] =
                          IF code = 0 THEN ToolOutput(form[j]) ELSE @]
    /\ UNCHANGED << form, output_files, mix_returncode, job_files, demucs_output, callVars,
                    statusVars, registryVars, handlerVars, stop_threads,
                    progressVars, readerVars, estimatorVars, elapsed,
                    input_file, job_output_dir, fdVars, cancelVars >>

\* the tool ends with code 0 and has written nothing under the expected
\* path of line 555: the tool is outside the program, and the lookup of lines
\* 559-573 is the program's answer to this outcome
ChildExitNoOutput(j) ==
    /\ child[j] = "running"
    /\ child' = [child EXCEPT ![j] = "exited"]
    /\ child_rc' = [child_rc EXCEPT ![j] = 0]
    /\ UNCHANGED << form, outputVars, callVars, statusVars, registryVars, handlerVars,
                    stop_threads, progressVars, readerVars, estimatorVars, elapsed,
                    fileVars, fdVars, cancelVars >>

\* time.time() advances; only line 473 of estimate_progress reads it, so
\* the clock is advanced where that thread can still read it
ClockAdvances(j, max) ==
    /\ epc[j] = "loop"
    /\ ~stop_threads[j]
    /\ elapsed[j] < max
    /\ elapsed' = [elapsed EXCEPT ![j] = @ + 1]
    /\ UNCHANGED << form, outputVars, callVars, statusVars, registryVars, handlerVars, childVars,
                    stop_threads, progressVars, readerVars, estimatorVars,
                    fileVars, fdVars, cancelVars >>

Tick(j) == ClockAdvances(j, MaxTicks)

(***************************************************************************)
(* update_progress and the thread read_output.                             *)
(***************************************************************************)
\* the lines the tool prints: a tqdm bar "NN%|", a model loading message
PctLine(n) == [kind |-> "pct", n |-> n]
LoadingLine == [kind |-> "loading", n |-> 0]
\* a line "Separating track curr/total" without a tqdm bar
FracLine(curr, total) == [kind |-> "frac", n |-> curr, total |-> total]
ToolLines == {PctLine(25), LoadingLine}
\* the lines of the specification of the progress mapping: a full bar, a
\* bar above 100%, fractions below and above 1 and a fraction with total 0
ProgressLines ==
    {PctLine(100), PctLine(MaxPercent), FracLine(1, 2), FracLine(3, 2), FracLine(1, 0)}
NoLine == [kind |-> "none", n |-> 0]

\* line 449: pct = int((curr / total) * 100); the float product is exact for
\* the fractions of the model
FracPercent(curr, total) == (curr * 100) \div total

\* lines 430-453: the line leads to a call of update_progress; a fraction
\* with total = 0 does not
LineUpdates(line) == line.kind = "frac" => line.total > 0

\* lines 428-451: the progress a line maps to
LineProgress(line) ==
    IF line.kind = "pct" THEN MapPercent(line.n)
    ELSE IF line.kind = "frac" THEN MapPercent(FracPercent(line.n, line.total))
    ELSE 12

\* lines 362-375, the test of update_progress
ProgressAdvances(j, new_progress) == new_progress > last_progress[j]

\* lines 362-375, update_progress under progress_lock
update_progress(j, new_progress, stage_msg) ==
    IF ProgressAdvances(j, new_progress)
    THEN /\ last_progress' = [last_progress EXCEPT ![j] = new_progress]
         /\ SetStatus(j, Snapshot("processing", new_progress, stage_msg))
    ELSE UNCHANGED << last_progress, processing_status >>

\* the descriptor the job opened is still the one at master_fd
FdIsOpen(j) == fd_table[master_fd[j]] = j

\* lines 385-405: stop_threads is clear, select reports data, os.read
\* returns a chunk holding a line
ReaderRead(j, line) ==
    /\ rpc[j] = "loop"
    /\ ~stop_threads[j]
    /\ FdIsOpen(j)
    /\ child[j] = "running"
    /\ rline' = [rline EXCEPT ![j] = line]
    /\ rpc' = [rpc EXCEPT ![j] = "parse"]
    /\ UNCHANGED << form, outputVars, callVars, statusVars, registryVars, handlerVars, childVars,
                    stop_threads, progressVars, output_lines, estimatorVars,
                    elapsed, fileVars, fdVars, cancelVars >>

\* lines 407-453: the line is captured and its progress applied
ReaderParse(j) ==
    /\ rpc[j] = "parse"
    /\ progress_lock[j] = "free"
    /\ output_lines' = [output_lines EXCEPT ![j] = @ \cup {rline[j]}]
    /\ IF LineUpdates(rline[j])
       THEN update_progress(j, LineProgress(rline[j]), "Separating stems")
       ELSE UNCHANGED << last_progress, processing_status >>
    /\ rline' = [rline EXCEPT ![j] = NoLine]
    /\ rpc' = [rpc EXCEPT ![j] = "loop"]
    /\ UNCHANGED << form, outputVars, callVars, registryVars, handlerVars, childVars, stop_threads,
                    progress_lock, estimatorVars, elapsed, fileVars, fdVars,
                    cancelVars >>

\* lines 385, 392-403, 455-464: the loop ends: stop_threads is set, the child
\* has ended, or the read fails on a closed descriptor
ReaderExit(j) ==
    /\ rpc[j] = "loop"
    /\ stop_threads[j] \/ child[j] # "running" \/ ~FdIsOpen(j)
    /\ rpc' = [rpc EXCEPT ![j] = "done"]
    /\ UNCHANGED << form, outputVars, callVars, statusVars, registryVars, handlerVars, childVars,
                    stop_threads, progressVars, rline, output_lines,
                    estimatorVars, elapsed, fileVars, fdVars, cancelVars >>

(***************************************************************************)
(* The thread estimate_progress.                                           *)
(***************************************************************************)
\* processing_status.get(job_id, {}).get('status')
StoredStatus(j) ==
    IF j \in DOMAIN processing_status THEN processing_status[j].status ELSE "absent"

\* the estimator's test without the condition on the stored status
EstimatorWritesAnyStatus(j, time_progress) ==
    /\ time_progress > last_progress[j]
    /\ last_progress[j] < EstimatorGuard

\* lines 483-485: the estimator's test
EstimatorWrites(j, time_progress) ==
    /\ time_progress > last_progress[j]
    /\ StoredStatus(j) = "processing"
    /\ last_progress[j] < EstimatorGuard

\* lines 472-476: stop_threads is clear; the clock is read and
\* time_progress computed
EstimatorEnter(j) ==
    /\ epc[j] = "loop"
    /\ ~stop_threads[j]
    /\ etp' = [etp EXCEPT ![j] = TimeProgress(elapsed[j])]
    /\ epc' = [epc EXCEPT ![j] = "test"]
    /\ UNCHANGED << form, outputVars, callVars, statusVars, registryVars, handlerVars, childVars,
                    stop_threads, progressVars, readerVars, elapsed, fileVars,
                    fdVars, cancelVars >>

\* lines 478-485: progress_lock is taken and the test made; the thread keeps
\* the lock for its write, or releases it and sleeps
EstimatorCheck(j) ==
    /\ epc[j] = "test"
    /\ progress_lock[j] = "free"
    /\ IF EstimatorWrites(j, etp[j])
       THEN /\ progress_lock' = [progress_lock EXCEPT ![j] = "estimator"]
            /\ epc' = [epc EXCEPT ![j] = "write"]
            /\ UNCHANGED etp
       ELSE /\ epc' = [epc EXCEPT ![j] = "loop"]
            /\ etp' = [etp EXCEPT ![j] = 0]
            /\ UNCHANGED progress_lock
    /\ UNCHANGED << form, outputVars, callVars, statusVars, registryVars, handlerVars, childVars,
                    stop_threads, last_progress, readerVars, elapsed, fileVars,
                    fdVars, cancelVars >>

\* estimate_progress acquiring progress_lock without releasing it
EstimatorWriteKeepsLock(j) ==
    /\ epc[j] = "write"
    /\ SetStatus(j, Snapshot("processing", etp[j], "Processing audio"))
    /\ etp' = [etp EXCEPT ![j] = 0]
    /\ epc' = [epc EXCEPT ![j] = "loop"]
    /\ UNCHANGED << form, outputVars, callVars, registryVars, handlerVars, childVars, stop_threads,
                    progressVars, readerVars, elapsed, fileVars, fdVars,
                    cancelVars >>

\* lines 486-491: the snapshot is stored and progress_lock released
EstimatorWrite(j) ==
    /\ epc[j] = "write"
    /\ SetStatus(j, Snapshot("processing", etp[j], "Processing audio"))
    /\ progress_lock' = [progress_lock EXCEPT ![j] = "free"]
    /\ etp' = [etp EXCEPT ![j] = 0]
    /\ epc' = [epc EXCEPT ![j] = "loop"]
    /\ UNCHANGED << form, outputVars, callVars, registryVars, handlerVars, childVars, stop_threads,
                    last_progress, readerVars, elapsed, fileVars, fdVars,
                    cancelVars >>

\* lines 472, 494-497: stop_threads is set, the loop ends
EstimatorExit(j) ==
    /\ epc[j] = "loop"
    /\ stop_threads[j]
    /\ epc' = [epc EXCEPT ![j] = "done"]
    /\ UNCHANGED << form, outputVars, callVars, statusVars, registryVars, handlerVars, childVars,
                    stop_threads, progressVars, readerVars, etp, elapsed,
                    fileVars, fdVars, cancelVars >>

(***************************************************************************)
(* The /cancel handler, cancel_job.                                        *)
(***************************************************************************)
\* requests are numbered in their order of arrival
Arrives(c) == cpc[c] = "idle" /\ \A b \in Cancellers : b < c => cpc[b] # "idle"

\* lines 110-111
CancelInvalid(c, id) ==
    /\ Arrives(c)
    /\ ~validate_job_id(id)
    /\ cjob' = [cjob EXCEPT ![c] = id]
    /\ cresp' = [cresp EXCEPT ![c] = Response(400, "Invalid job ID", {})]
    /\ cpc' = [cpc EXCEPT ![c] = "done"]
    /\ UNCHANGED << form, outputVars, callVars, statusVars, registryVars, handlerVars, childVars,
                    stop_threads, progressVars, readerVars, estimatorVars,
                    elapsed, fileVars, fdVars, cancel_killed >>

\* line 115: job_id in active_processes
InRegistry(id) == id \in DOMAIN active_processes

\* cancel_job with the status write of line 146 moved out of the `if`
CancelNotFoundMarks(c, id) ==
    /\ Arrives(c)
    /\ validate_job_id(id)
    /\ process_lock = 0
    /\ ~InRegistry(id)
    /\ cjob' = [cjob EXCEPT ![c] = id]
    /\ cresp' = [cresp EXCEPT ![c] = Response(404, "not_found", {})]
    /\ cpc' = [cpc EXCEPT ![c] = "done"]
    /\ SetStatus(id, Snapshot("cancelled", 0, "Cancelled by user"))
    /\ UNCHANGED << form, outputVars, callVars, registryVars, handlerVars, childVars,
                    stop_threads, progressVars, readerVars, estimatorVars,
                    elapsed, fileVars, fdVars, cancel_killed >>

\* lines 114-115, 158-160: no entry under the lock: 404
CancelNotFound(c, id) ==
    /\ Arrives(c)
    /\ validate_job_id(id)
    /\ process_lock = 0
    /\ ~InRegistry(id)
    /\ cjob' = [cjob EXCEPT ![c] = id]
    /\ cresp' = [cresp EXCEPT ![c] = Response(404, "not_found", {})]
    /\ cpc' = [cpc EXCEPT ![c] = "done"]
    /\ UNCHANGED << form, outputVars, callVars, statusVars, registryVars, handlerVars, childVars,
                    stop_threads, progressVars, readerVars, estimatorVars,
                    elapsed, fileVars, fdVars, cancel_killed >>

\* cancel_job looking up the registry without taking process_lock
CancelBeginUnlocked(c, id) ==
    /\ Arrives(c)
    /\ validate_job_id(id)
    /\ process_lock = 0
    /\ InRegistry(id)
    /\ cjob' = [cjob EXCEPT ![c] = id]
    /\ stop_threads' = [stop_threads EXCEPT ![id] = TRUE]
    /\ fd_table' = OsClose(fd_table, active_processes[id].master_fd)
    /\ close_calls' = [close_calls EXCEPT ![id] = @ + 1]
    /\ cpc' = [cpc EXCEPT ![c] = "kill"]
    /\ UNCHANGED << form, outputVars, callVars, statusVars, registryVars, handlerVars, childVars,
                    progressVars, readerVars, estimatorVars, elapsed, fileVars,
                    master_fd, cresp, cancel_killed >>

\* lines 114-129: the entry is found under the lock; stop_event.set() and
\* os.close(master_fd)
CancelBegin(c, id) ==
    /\ Arrives(c)
    /\ validate_job_id(id)
    /\ process_lock = 0
    /\ InRegistry(id)
    /\ process_lock' = c
    /\ cjob' = [cjob EXCEPT ![c] = id]
    /\ stop_threads' = [stop_threads EXCEPT ![id] = TRUE]
    /\ fd_table' = OsClose(fd_table, active_processes[id].master_fd)
    /\ close_calls' = [close_calls EXCEPT ![id] = @ + 1]
    /\ cpc' = [cpc EXCEPT ![c] = "kill"]
    /\ UNCHANGED << form, outputVars, callVars, statusVars, active_processes, handlerVars, childVars,
                    progressVars, readerVars, estimatorVars, elapsed, fileVars,
                    master_fd, cresp, cancel_killed >>

\* cancel_job without process.terminate() and process.kill()
CancelKillSkipped(c) ==
    /\ cpc[c] = "kill"
    /\ cpc' = [cpc EXCEPT ![c] = "mark"]
    /\ UNCHANGED << form, outputVars, callVars, statusVars, registryVars, handlerVars, childVars,
                    stop_threads, progressVars, readerVars, estimatorVars, elapsed,
                    fileVars, fdVars, cjob, cresp, cancel_killed >>

\* lines 131-142: a child that is still running is terminated and waited for
CancelKill(c) ==
    /\ cpc[c] = "kill"
    /\ IF child[cjob[c]] = "running"
       THEN /\ child' = [child EXCEPT ![cjob[c]] = "exited"]
            /\ child_rc' = [child_rc EXCEPT ![cjob[c]] = -15]
            /\ cancel_killed' = [cancel_killed EXCEPT ![cjob[c]] = TRUE]
       ELSE UNCHANGED << child, child_rc, cancel_killed >>
    /\ cpc' = [cpc EXCEPT ![c] = "mark"]
    /\ UNCHANGED << form, outputVars, callVars, statusVars, registryVars, handlerVars, stop_threads,
                    progressVars, readerVars, estimatorVars, elapsed, fileVars,
                    fdVars, cjob, cresp >>

\* cancel_job emptying the registry (active_processes.clear()) instead of
\* deleting the entry of its job
CancelMarkClears(c) ==
    /\ cpc[c] = "mark"
    /\ active_processes' = EmptyDict
    /\ SetStatus(cjob[c], Snapshot("cancelled", 0, "Cancelled by user"))
    /\ cpc' = [cpc EXCEPT ![c] = "clean"]
    /\ UNCHANGED << form, outputVars, callVars, process_lock, handlerVars, childVars, stop_threads,
                    progressVars, readerVars, estimatorVars, elapsed, fileVars,
                    fdVars, cjob, cresp, cancel_killed >>

\* cancel_job writing the status under the job's progress_lock while it
\* holds process_lock
CancelMarkLocked(c) ==
    /\ cpc[c] = "mark"
    /\ progress_lock[cjob[c]] = "free"
    /\ active_processes' = DictDel(active_processes, cjob[c])
    /\ SetStatus(cjob[c], Snapshot("cancelled", 0, "Cancelled by user"))
    /\ cpc' = [cpc EXCEPT ![c] = "clean"]
    /\ UNCHANGED << form, outputVars, callVars, process_lock, handlerVars, childVars, stop_threads,
                    progressVars, readerVars, estimatorVars, elapsed, fileVars,
                    fdVars, cjob, cresp, cancel_killed >>

\* lines 144-146: the entry is deleted and the status set to cancelled
CancelMark(c) ==
    /\ cpc[c] = "mark"
    /\ active_processes' = DictDel(active_processes, cjob[c])
    /\ SetStatus(cjob[c], Snapshot("cancelled", 0, "Cancelled by user"))
    /\ cpc' = [cpc EXCEPT ![c] = "clean"]
    /\ UNCHANGED << form, outputVars, callVars, process_lock, handlerVars, childVars, stop_threads,
                    progressVars, readerVars, estimatorVars, elapsed, fileVars,
                    fdVars, cjob, cresp, cancel_killed >>

\* lines 148-157: the job's output directory is removed, the lock released
\* and `cancelled` returned
CancelReturn(c) ==
    /\ cpc[c] = "clean"
    /\ job_output_dir' = [job_output_dir EXCEPT ![cjob[c]] = FALSE]
    /\ job_files' = [job_files EXCEPT ![cjob[c]] = {}]
    /\ process_lock' = 0
    /\ cresp' = [cresp EXCEPT ![c] = Response(200, "cancelled", {})]
    /\ cpc' = [cpc EXCEPT ![c] = "done"]
    /\ UNCHANGED << form, output_files, mix_returncode, demucs_files, demucs_output, callVars,
                    statusVars, active_processes, handlerVars, childVars,
                    stop_threads, progressVars, readerVars, estimatorVars,
                    elapsed, input_file, demucs_dir, fdVars, cjob,
                    cancel_killed >>

(***************************************************************************)
(* Other requests of the server opening and closing descriptors (another   *)
(* job's pty.openpty, an upload being saved).                              *)
(***************************************************************************)
OtherOpen ==
    /\ FreeFds(fd_table) # {}
    /\ \A n \in FdNums : fd_table[n] # OtherOwner
    /\ fd_table' = [fd_table EXCEPT ![LowestFree(fd_table)] = OtherOwner]
    /\ UNCHANGED << form, outputVars, callVars, statusVars, registryVars, handlerVars, childVars,
                    stop_threads, progressVars, readerVars, estimatorVars,
                    elapsed, fileVars, close_calls, master_fd, cancelVars >>

OtherClose(n) ==
    /\ fd_table[n] = OtherOwner
    /\ fd_table' = [fd_table EXCEPT ![n] = FreeSlot]
    /\ UNCHANGED << form, outputVars, callVars, statusVars, registryVars, handlerVars, childVars,
                    stop_threads, progressVars, readerVars, estimatorVars,
                    elapsed, fileVars, close_calls, master_fd, cancelVars >>

(***************************************************************************)
(* safe_join (lines 37-50) on POSIX paths, which are sequences of          *)
(* characters.  No path of the model is a symbolic link.                   *)
(***************************************************************************)
Sep == "/"
\* the working directory of the server
Cwd == <<"/", "w">>

StartsWith(s, prefix) ==
    Len(prefix) <= Len(s) /\ SubSeq(s, 1, Len(prefix)) = prefix
EndsWith(s, suffix) ==
    Len(suffix) <= Len(s) /\ SubSeq(s, Len(s) - Len(suffix) + 1, Len(s)) = suffix

\* str.split('/')
RECURSIVE Split(_)
Split(s) ==
    LET seps == {i \in 1..Len(s) : s[i] = Sep}
    IN  IF seps = {} THEN << s >>
        ELSE LET i == CHOOSE k \in seps : \A m \in seps : k <= m
             IN  << SubSeq(s, 1, i - 1) >> \o Split(SubSeq(s, i + 1, Len(s)))

\* '/' + '/'.join(comps)
RECURSIVE SepJoin(_)
SepJoin(comps) ==
    IF Len(comps) = 0 THEN << >>
    ELSE IF Len(comps) = 1 THEN comps[1]
    ELSE comps[1] \o << Sep >> \o SepJoin(Tail(comps))
FromRoot(comps) == << Sep >> \o SepJoin(comps)

\* os.path.join(base_dir, *paths): a segment that starts with '/' replaces
\* what was joined so far
RECURSIVE PathJoin(_, _)
PathJoin(path, paths) ==
    IF Len(paths) = 0 THEN path
    ELSE LET b == Head(paths)
             next == IF StartsWith(b, << Sep >>) THEN b
                     ELSE IF Len(path) = 0 \/ EndsWith(path, << Sep >>) THEN path \o b
                     ELSE path \o << Sep >> \o b
         IN  PathJoin(next, Tail(paths))

\* the walk of os.path.realpath over the components: '' and '.' are
\* skipped, '..' drops the last component and stays at the root
RECURSIVE Resolve(_, _)
Resolve(done, rest) ==
    IF Len(rest) = 0 THEN done
    ELSE LET name == Head(rest)
         IN  IF name = << >> \/ name = << "." >> THEN Resolve(done, Tail(rest))
             ELSE IF name = << ".", "." >>
             THEN Resolve(IF Len(done) = 0 THEN done
                          ELSE SubSeq(done, 1, Len(done) - 1), Tail(rest))
             ELSE Resolve(Append(done, name), Tail(rest))

\* os.path.realpath(path): a relative path starts at the working directory
realpath(path) ==
    FromRoot(Resolve(IF StartsWith(path, << Sep >>) THEN << >>
                     ELSE Resolve(<< >>, Split(Cwd)),
                     Split(path)))

\* os.path.commonpath([a, b]) of two absolute paths: the longest common
\* prefix of their components
RECURSIVE CommonPrefix(_, _)
CommonPrefix(a, b) ==
    IF Len(a) = 0 \/ Len(b) = 0 \/ Head(a) # Head(b) THEN << >>
    ELSE << Head(a) >> \o CommonPrefix(Tail(a), Tail(b))
Names(path) == SelectSeq(Split(path), LAMBDA c : c # << >> /\ c # << "." >>)
commonpath(a, b) == FromRoot(CommonPrefix(Names(a), Names(b)))

Raised == [kind |-> "raise", path |-> << >>]
Returned(path) == [kind |-> "return", path |-> path]

\* safe_join with the containment test on the strings instead of on the
\* components: real_joined.startswith(real_base)
safe_join_startswith(base_dir, paths) ==
    LET joined == PathJoin(base_dir, paths)
        real_base == realpath(base_dir)
        real_joined == realpath(joined)
    IN  IF ~StartsWith(real_joined, real_base) THEN Raised ELSE Returned(real_joined)

\* lines 37-50
safe_join(base_dir, paths) ==
    LET joined == PathJoin(base_dir, paths)
        real_base == realpath(base_dir)
        real_joined == realpath(joined)
        common == commonpath(real_base, real_joined)
    IN  IF common # real_base THEN Raised ELSE Returned(real_joined)

(***************************************************************************)
(* Calls of the two pure functions on enumerated arguments.                *)
(***************************************************************************)
\* characters of every class: alphanumeric, hyphen, path separators,
\* whitespace, a control character, shell metacharacters
IdAlphabet ==
    {"a", "Z", "7", "-", "/", "\\", " ", "\t", "\n", "\r", ";", "|", "$", "&"}
Repeat(c, n) == [i \in 1..n |-> c]
\* every string of at most MaxIdLen characters, the ids at the length
\* limit, and None
IdInputs ==
    UNION { [1..n -> IdAlphabet] : n \in 0..MaxIdLen }
      \cup { Repeat("a", MaxIdTail + 1), Repeat("a", MaxIdTail + 2),
             Repeat("a", MaxIdTail) \o << "-" >>,
             Repeat("a", MaxIdTail) \o << "\n" >>,
             Repeat("a", MaxIdTail + 1) \o << "\n" >>,
             NoId }

\* roots: absolute, nested, the file system root, with a trailing
\* separator, not normalised, relative
JoinRoots ==
    { <<"/", "a">>, <<"/", "a", "/", "b">>, <<"/">>, <<"/", "a", "/">>,
      <<"/", "b", "/", ".", ".", "/", "a">>, <<"a">> }
\* segments: names, the empty segment, '.', '..', absolute segments, a
\* sibling whose name starts with the name of the root, nested paths
JoinSegments ==
    { <<"b">>, <<"a", "b">>, << >>, <<".">>, <<".", ".">>,
      <<"/", "b">>, <<"/", "a", "b">>, <<"/", "a", "/", "b">>,
      <<".", ".", "/", "a", "b">>, <<".", ".", "/", "a">>,
      <<"b", "/", ".", ".", "/", ".", ".">>, <<".", ".", "/", ".", ".">>,
      <<"b", "/", "a">> }
JoinInputs ==
    [ base_dir : JoinRoots,
      paths : UNION { [1..n -> JoinSegments] : n \in 1..MaxSegs } ]

InitIds ==
    /\ InitProgram
    /\ form \in Tied([j \in Jobs |-> { [job_id |-> j] }])
    /\ id_arg \in IdInputs
    /\ id_ret = "pending"
    /\ join_arg = [base_dir |-> << >>, paths |-> << >>]
    /\ join_ret = [kind |-> "pending", path |-> << >>]
    /\ NoStatusCall

InitPaths ==
    /\ InitProgram
    /\ form \in Tied([j \in Jobs |-> { [job_id |-> j] }])
    /\ id_arg = << >>
    /\ id_ret = "pending"
    /\ join_arg \in JoinInputs
    /\ join_ret = [kind |-> "pending", path |-> << >>]
    /\ NoStatusCall

programVars == << statusVars, registryVars, handlerVars, childVars, stop_threads,
                  progressVars, readerVars, estimatorVars, elapsed, fileVars,
                  fdVars, cancelVars, form, outputVars >>

CallValidateJobId ==
    /\ id_ret = "pending"
    /\ id_ret' = IF validate_job_id(id_arg) THEN "True" ELSE "False"
    /\ UNCHANGED << programVars, id_arg, join_arg, join_ret, status_arg, status_ret >>

CallSafeJoin ==
    /\ join_ret.kind = "pending"
    /\ join_ret' = safe_join(join_arg.base_dir, join_arg.paths)
    /\ UNCHANGED << programVars, id_arg, id_ret, join_arg, status_arg, status_ret >>

SpecIds == InitIds /\ [][CallValidateJobId]_vars
SpecPaths == InitPaths /\ [][CallSafeJoin]_vars

(***************************************************************************)
(* The /status handler, get_status (lines 98-105).                         *)
(***************************************************************************)
\* the ids /status requests are issued for: the submitted job, a well-formed
\* id that was never submitted, and an id the pattern rejects
StatusIds == AllJobs \cup {InvalidId}

\* lines 101-105: what get_status returns
get_status(id) ==
    IF ~validate_job_id(id)
    THEN StatusResponse(400, [error |-> "Invalid job ID"])
    ELSE IF id \in DOMAIN processing_status
    THEN StatusResponse(200, processing_status[id])
    ELSE StatusResponse(200, [status |-> "unknown", progress |-> 0])

\* get_status reading with processing_status.setdefault(job_id, sentinel)
GetStatusCreates(id) ==
    /\ status_arg' = id
    /\ status_ret' = get_status(id)
    /\ processing_status' =
          IF validate_job_id(id) /\ id \notin DOMAIN processing_status
          THEN DictPut(processing_status, id, [status |-> "unknown", progress |-> 0])
          ELSE processing_status
    /\ UNCHANGED << registryVars, handlerVars, childVars, stop_threads,
                    progressVars, readerVars, estimatorVars, elapsed, fileVars,
                    fdVars, cancelVars, form, outputVars,
                    id_arg, id_ret, join_arg, join_ret >>

\* lines 98-105: one /status request
GetStatus(id) ==
    /\ status_arg' = id
    /\ status_ret' = get_status(id)
    /\ UNCHANGED << programVars, id_arg, id_ret, join_arg, join_ret >>

(***************************************************************************)
(* The specification.                                                      *)
(***************************************************************************)
HandlerStep(j) ==
    \/ Admit(j) \/ RejectRequest(j) \/ RejectFile(j) \/ SaveUpload(j) \/ SaveFails(j)
    \/ MakeOutputDir(j) \/ BuildCommand(j) \/ Spawn(j) \/ Register(j)
    \/ WaitReturn(j) \/ WaitTimeout(j) \/ StopAndClose(j)
    \/ Join(j) \/ TimeoutFail(j)
    \/ FailNonZero(j) \/ UnregisterFailed(j)
    \/ Organize(j) \/ (\E mix_rc \in {-1, 0, 1} : Assemble(j, mix_rc))
    \/ Cleanup(j)
    \/ UnregisterCompleted(j) \/ ExceptFail(j)

\* lines 575-667 raising at the first stem of the loop, nothing collected yet
AssembleFailsFirst(j) ==
    \E failed \in ALLOWED_STEMS :
        ProcessedBefore(j, failed) = {} /\ AssembleFails(j, failed)

\* lines 575-667 raising at any stem of the loop
AssembleFailsAny(j) == \E failed \in ALLOWED_STEMS : AssembleFails(j, failed)

ThreadStep(j) ==
    \/ \E line \in ToolLines : ReaderRead(j, line)
    \/ ReaderParse(j) \/ ReaderExit(j)
    \/ EstimatorEnter(j) \/ EstimatorCheck(j) \/ EstimatorWrite(j) \/ EstimatorExit(j)

CancelStep(c) ==
    \/ \E id \in CancelIds :
          CancelInvalid(c, id) \/ CancelNotFound(c, id) \/ CancelBegin(c, id)
    \/ CancelKill(c) \/ CancelMark(c) \/ CancelReturn(c)

EnvStep ==
    \/ \E j \in Jobs : \E code \in ExitCodes : ChildExit(j, code)
    \/ \E j \in Jobs : Tick(j)

OtherStep ==
    \/ OtherOpen
    \/ \E n \in FdNums : OtherClose(n)

\* one request and the cancellers aimed at it
NextServing ==
    \/ \E j \in Jobs : HandlerStep(j) \/ AssembleFailsFirst(j)
    \/ \E j \in Jobs : ThreadStep(j)
    \/ \E c \in Cancellers : CancelStep(c)
    \/ EnvStep

\* every thread ends within its join window; other requests open and close
\* descriptors meanwhile
NextJoined ==
    \/ NextServing
    \/ OtherStep

\* a join window may also end with a thread still running; descriptors are
\* opened and closed by the request alone
Next ==
    \/ NextServing
    \/ \E j \in Jobs : JoinAbandon(j)

Spec == Init /\ [][Next]_vars

\* the behaviours in which no thread outlives its join window
SpecJoined == Init /\ [][NextJoined]_vars

\* the admission of a request: lines 164-251 of process_audio
NextAdmission ==
    \E j \in Jobs : Admit(j) \/ RejectRequest(j) \/ RejectFile(j)

SpecAdmission == InitAdmission /\ [][NextAdmission]_vars

\* the steps of one request and of the cancellers aimed at it, every thread
\* ending within its join window; descriptors are opened and closed by the
\* request alone
NextOutputs ==
    \/ \E j \in Jobs : HandlerStep(j) \/ AssembleFailsAny(j)
    \/ \E j \in Jobs : ThreadStep(j)
    \/ \E c \in Cancellers : CancelStep(c)
    \/ \E j \in Jobs : \E code \in ExitCodes : ChildExit(j, code)
    \/ \E j \in Jobs : Tick(j)

\* the program serving the requests of OutputForms
SpecOutputs == InitOutputs /\ [][NextOutputs]_vars

\* two requests with distinct job ids and default options, the second
\* arriving after the first; one /cancel request for either job
InitPair == InitProgram /\ form = [j \in AllJobs |-> [job_id |-> j]] /\ NoCall

Arrived(j) == j \in OtherJobs => \A i \in Jobs : hpc[i] # "idle"

PairHandler(j) ==
    \/ (Arrived(j) /\ Admit(j)) \/ RejectFile(j) \/ SaveUpload(j)
    \/ MakeOutputDir(j) \/ BuildCommand(j) \/ Spawn(j) \/ Register(j)
    \/ WaitReturn(j) \/ WaitTimeout(j) \/ StopAndClose(j)
    \/ Join(j) \/ TimeoutFail(j)
    \/ FailNonZero(j) \/ UnregisterFailed(j)
    \/ Organize(j) \/ Assemble(j, -1)
    \/ Cleanup(j)
    \/ UnregisterCompleted(j)

PairThread(j) ==
    \/ ReaderRead(j, PctLine(25))
    \/ ReaderParse(j) \/ ReaderExit(j)
    \/ EstimatorExit(j)

PairCancel(c) ==
    \/ \E id \in AllJobs : CancelNotFound(c, id) \/ CancelBegin(c, id)
    \/ CancelKill(c) \/ CancelMark(c) \/ CancelReturn(c)

NextPair ==
    \/ \E j \in AllJobs : PairHandler(j)
    \/ \E j \in AllJobs : PairThread(j)
    \/ PairCancel(1)
    \/ \E j \in AllJobs : \E code \in ExitCodes : ChildExit(j, code)

\* the program serving two requests at once
SpecPair == InitPair /\ [][NextPair]_vars

\* one request with default options whose tool prints the lines of
\* ProgressLines and ends by itself or by a /cancel request, with a clock
\* that passes the estimated duration; no timeout
InitProgress == InitProgram /\ form = [j \in AllJobs |-> [job_id |-> j]] /\ NoCall

NextProgress ==
    \E j \in Jobs :
        \/ Admit(j) \/ SaveUpload(j) \/ MakeOutputDir(j) \/ BuildCommand(j)
        \/ Spawn(j) \/ Register(j) \/ WaitReturn(j) \/ StopAndClose(j) \/ Join(j)
        \/ FailNonZero(j) \/ UnregisterFailed(j)
        \/ Organize(j) \/ Assemble(j, -1) \/ Cleanup(j) \/ UnregisterCompleted(j)
        \/ (\E line \in ProgressLines : ReaderRead(j, line))
        \/ ReaderParse(j) \/ ReaderExit(j)
        \/ EstimatorEnter(j) \/ EstimatorCheck(j) \/ EstimatorWrite(j) \/ EstimatorExit(j)
        \/ (\E code \in ExitCodes : ChildExit(j, code))
        \/ ClockAdvances(j, MaxLongTicks)
        \/ CancelBegin(1, j) \/ CancelKill(1) \/ CancelMark(1) \/ CancelReturn(1)

SpecProgress == InitProgress /\ [][NextProgress]_vars

\* one request with default options, one /cancel request, and /status
\* requests at any moment
NextStatus ==
    \/ \E j \in Jobs : PairHandler(j)
    \/ \E j \in Jobs : PairThread(j)
    \/ PairCancel(1)
    \/ \E j \in Jobs : \E code \in ExitCodes : ChildExit(j, code)
    \/ \E id \in StatusIds : GetStatus(id)

SpecStatus == InitPair /\ [][NextStatus]_vars

\* one request with default options and one /cancel request, under the
\* scheduling the code relies on; every way out of process_audio is open
LiveHandler(j) ==
    \/ PairHandler(j) \/ SaveFails(j)
    \/ AssembleFailsFirst(j) \/ ExceptFail(j)
    \/ JoinAbandon(j)

ReaderStep(j) ==
    ReaderRead(j, PctLine(25)) \/ ReaderParse(j) \/ ReaderExit(j)

EstimatorStep(j) ==
    EstimatorEnter(j) \/ EstimatorCheck(j) \/ EstimatorWrite(j) \/ EstimatorExit(j)

CancelProceeds(c) == CancelKill(c) \/ CancelMark(c) \/ CancelReturn(c)

NextLive ==
    \/ \E j \in Jobs : LiveHandler(j)
    \/ \E j \in Jobs : ReaderStep(j) \/ EstimatorStep(j)
    \/ (\E id \in Jobs : CancelNotFound(1, id) \/ CancelBegin(1, id)) \/ CancelProceeds(1)
    \/ \E j \in Jobs : \E code \in ExitCodes : ChildExit(j, code)
    \/ \E j \in Jobs : Tick(j)

\* scheduling: a handler that can take a step takes one (process.wait and
\* Thread.join return at their timeouts at the latest); each thread is
\* scheduled (select and sleep wake up every 0.5 s); a cancel request that
\* holds process_lock runs on.  The child and the arrival of requests are
\* under no obligation.
Fairness ==
    /\ \A j \in Jobs : WF_vars(LiveHandler(j))
    /\ \A j \in Jobs : WF_vars(ReaderStep(j))
    /\ \A j \in Jobs : WF_vars(EstimatorStep(j))
    /\ WF_vars(CancelProceeds(1))

SpecLive == InitPair /\ [][NextLive]_vars /\ Fairness

\* one request with default options and several /cancel requests for it
CancelRequests == 1..(NumCancellers + 1)

InitCancels == InitWith(CancelRequests) /\ form = [j \in AllJobs |-> [job_id |-> j]] /\ NoCall

NextCancels ==
    \/ \E j \in Jobs : LiveHandler(j)
    \/ \E j \in Jobs : PairThread(j)
    \/ \E c \in CancelRequests :
          \/ \E id \in Jobs : CancelNotFound(c, id) \/ CancelBegin(c, id)
          \/ CancelProceeds(c)
    \/ \E j \in Jobs : \E code \in ExitCodes : ChildExit(j, code)

SpecCancels == InitCancels /\ [][NextCancels]_vars

\* two requests with distinct job ids, default options and so the same
\* model; the tool of either may end with code 0 and no output
NextShared ==
    \/ \E j \in AllJobs : PairHandler(j)
    \/ \E j \in AllJobs : PairThread(j)
    \/ \E j \in AllJobs : \E code \in ExitCodes : ChildExit(j, code)
    \/ \E j \in AllJobs : ChildExitNoOutput(j)

SpecShared == InitPair /\ [][NextShared]_vars

(***************************************************************************)
(* Properties.                                                             *)
(***************************************************************************)
Stored(j) == j \in DOMAIN processing_status
CancelSucceeded(j) ==
    \E c \in Cancellers : cpc[c] = "done" /\ cjob[c] = j /\ cresp[c].body = "cancelled"
NoCancelIssued(j) == \A c \in Cancellers : cpc[c] = "idle" \/ cjob[c] # j
Spawned(j) == child[j] # "none"
TimedOut(j) == hpc[j] \in {"tjoin", "t_unreg"}

\* C1: between two successive snapshots of a job that both have status
\* `processing`, the stored progress never decreases.
C1_ProgressNeverDecreases ==
    [][\A j \in Jobs :
         ( /\ j \in DOMAIN processing_status
           /\ j \in DOMAIN processing_status'
           /\ processing_status[j].status = "processing"
           /\ processing_status'[j].status = "processing" )
         => processing_status'[j].progress >= processing_status[j].progress]_vars

\* C2: at the step in which cancel returns `cancelled`, the registry entry
\* of the job is removed, its stop signal is set, and its stored snapshot is
\* `cancelled` with progress 0.
C2_CancelReturnState ==
    [][\A c \in Cancellers :
         (cpc[c] = "clean" /\ cpc'[c] = "done" /\ cresp'[c].body = "cancelled")
         => /\ cjob[c] \notin DOMAIN active_processes'
            /\ stop_threads'[cjob[c]]
            /\ cjob[c] \in DOMAIN processing_status'
            /\ processing_status'[cjob[c]].status = "cancelled"
            /\ processing_status'[cjob[c]].progress = 0]_vars

\* C3: once a cancel has succeeded for a job whose child was still running,
\* the status after the handler has exited is `cancelled` or `completed`.
C3_CancelledStaysCancelled ==
    \A j \in Jobs :
        (CancelSucceeded(j) /\ cancel_killed[j] /\ hpc[j] = "done")
        => Stored(j) /\ processing_status[j].status \in {"cancelled", "completed"}

\* C4: a cancel request for a job id without a registry entry returns 404
\* and leaves the status store, the registry and the files unchanged.
C4_CancelNotFoundNoEffect ==
    [][\A c \in Cancellers :
         ( /\ cpc[c] = "idle"
           /\ cpc'[c] # "idle"
           /\ validate_job_id(cjob'[c])
           /\ cjob'[c] \notin DOMAIN active_processes )
         => /\ cpc'[c] = "done"
            /\ cresp'[c].code = 404
            /\ cresp'[c].body = "not_found"
            /\ UNCHANGED << processing_status, active_processes, fileVars >>]_vars

\* C4 witness: a submitted job with a stored status and a saved upload, but
\* no registry entry, was answered 404.
C4_Witness ==
    \E c \in Cancellers : \E j \in Jobs :
        /\ cpc[c] = "done" /\ cjob[c] = j /\ cresp[c].code = 404
        /\ Stored(j) /\ input_file[j]
        /\ j \notin DOMAIN active_processes

\* C5: a cancel request for a job whose handler has ended with status
\* `completed` or `failed` returns not-found and changes neither the status
\* nor the files.
C5_CancelAfterTerminalIsNoOp ==
    [][\A c \in Cancellers :
         ( /\ cpc[c] = "idle"
           /\ cpc'[c] # "idle"
           /\ cjob'[c] \in Jobs
           /\ hpc[cjob'[c]] = "done"
           /\ Stored(cjob'[c])
           /\ processing_status[cjob'[c]].status \in {"completed", "failed"} )
         => /\ cresp'[c].code = 404
            /\ UNCHANGED << processing_status, fileVars >>]_vars

\* C6: when the wait times out, the child is killed and the stop signal set;
\* the handler then ends only by the timeout failure: registry entry removed,
\* status `failed` (Timeout), response 500.
C6_TimeoutEndsFailed ==
    [][\A j \in Jobs :
         /\ TimedOut(j)' => (child'[j] = "exited" /\ stop_threads'[j])
         /\ (TimedOut(j) /\ ~TimedOut(j)')
            => /\ hpc'[j] = "done"
               /\ child'[j] = "exited"
               /\ stop_threads'[j]
               /\ j \notin DOMAIN active_processes'
               /\ processing_status'[j] = Snapshot("failed", 0, "Timeout")
               /\ hresp'[j].code = 500
               /\ hresp'[j].body = "Processing timeout"]_vars

\* C6 witness: a handler has ended by the timeout path.
C6_Witness ==
    \E j \in Jobs :
        /\ hpc[j] = "done"
        /\ hresp[j].body = "Processing timeout"
        /\ child_rc[j] = -9
        /\ processing_status[j].stage = "Timeout"

\* C7: when the child exits non-zero and no cancel was issued, the handler
\* ends with status `failed`, a 500 response carrying the captured output,
\* and no registry entry.
C7_NonZeroEndsFailed ==
    [][\A j \in Jobs :
         (hpc[j] = "nz_unreg" /\ hpc'[j] = "done" /\ NoCancelIssued(j))
         => /\ processing_status'[j].status = "failed"
            /\ hresp'[j].code = 500
            /\ hresp'[j].details = full_output'[j]
            /\ j \notin DOMAIN active_processes']_vars

\* C8: once the handler of an admitted job has exited, the uploaded input
\* file and the tool's intermediate output directory no longer exist.
C8_FilesCleanedOnExit ==
    \A j \in Jobs :
        (hpc[j] = "done" /\ Stored(j)) => (~input_file[j] /\ ~demucs_dir[j])

\* C9: once a handler that spawned the child has exited, the registry holds
\* no entry for the job.
C9_NoEntryAfterExit ==
    \A j \in Jobs :
        (hpc[j] = "done" /\ Spawned(j)) => j \notin DOMAIN active_processes

\* C10: the master descriptor of a spawned job is closed exactly once: no
\* second os.close on its number, and not open after the handler's exit.
C10_DescriptorClosedOnce ==
    \A j \in Jobs :
        /\ close_calls[j] <= 1
        /\ (hpc[j] = "done" /\ Spawned(j)) => fd_table[master_fd[j]] # j

\* C11: a `process` request that has ended with a non-2xx response after its
\* status entry was initialised leaves a terminal snapshot, `failed` or
\* `cancelled`, never `uploading` or `processing`.
C11_NonSuccessIsTerminal ==
    \A j \in Jobs :
        (hpc[j] = "done" /\ hresp[j].code \notin 200..299 /\ Stored(j))
        => processing_status[j].status \in {"failed", "cancelled"}

\* C12: once the handler of a job has exited, the stored status of the job
\* is not `processing`, whatever a thread left behind writes later.
C12_NotProcessingAfterExit ==
    \A j \in Jobs :
        (hpc[j] = "done" /\ Stored(j)) => processing_status[j].status # "processing"

\* the step in which the handler answers the checks of lines 204-238
Answers(j) == hpc[j] = "idle" /\ hpc'[j] # "idle"

\* nothing of a job exists: no status or registry entry, file or child
NothingCreated ==
    UNCHANGED << processing_status, active_processes, fileVars, job_files, childVars >>

\* a job id of 1 to 255 characters, the first alphanumeric, the others
\* alphanumeric or hyphens
WellFormedId(s) ==
    /\ Len(s) \in 1..255
    /\ s[1] \in AlNum
    /\ \A i \in 2..Len(s) : s[i] \in AlNum \cup {"-"}

\* a numeric option that was sent, parses, and is not in its allow-list
NumberOutside(f, key, allowed) ==
    /\ key \in DOMAIN f
    /\ f[key] # << >>
    /\ LET p == IF key = "overlap" THEN ParseFloat(f[key]) ELSE ParseInt(f[key])
       IN  p.ok /\ p.val \notin allowed

\* the job id or an option of the request is outside its allow-list
OutsideAllowList(f) ==
    \/ ~WellFormedId(job_id(f))
    \/ output_format(f) \notin ALLOWED_OUTPUT_FORMATS
    \/ stem_mode(f) \notin ALLOWED_STEM_MODES
    \/ isolate_stem(f) \notin ALLOWED_STEMS
    \/ model(f) \notin ALLOWED_MODELS
    \/ clip_mode(f) \notin ALLOWED_CLIP_MODES
    \/ NumberOutside(f, "shifts", ALLOWED_SHIFTS)
    \/ NumberOutside(f, "segment", ALLOWED_SEGMENTS)
    \/ NumberOutside(f, "overlap", ALLOWED_OVERLAPS)

\* isolate mode asking a 4-stem model for guitar or piano
IncompatibleIsolate(f) ==
    /\ stem_mode(f) = "isolate"
    /\ isolate_stem(f) \in {"guitar", "piano"}
    /\ model(f) \in {"htdemucs", "htdemucs_ft", "hdemucs_mmi",
                     "mdx", "mdx_extra", "mdx_q", "mdx_extra_q"}

\* C13: a request in isolate mode whose isolate_stem the selected model does
\* not produce is answered 400 and nothing is created; when every field is
\* in its allow-list the error is the incompatible-option error.
C13_IncompatibleIsolateRejected ==
    [][\A j \in Jobs :
         (Answers(j) /\ IncompatibleIsolate(form[j]))
         => /\ hpc'[j] = "done"
            /\ hresp'[j].code = 400
            /\ ~OutsideAllowList(form[j])
               => hresp'[j].body = "Incompatible isolate_stem for selected model"
            /\ NothingCreated]_vars

\* a numeric option that was sent with a text that is no number
NonNumeric(f, key) ==
    /\ key \in DOMAIN f
    /\ f[key] # << >>
    /\ ~(IF key = "overlap" THEN ParseFloat(f[key]) ELSE ParseInt(f[key])).ok

\* a text of the option that is a number outside its allow-list
OutOfRange(key) ==
    CASE key = "shifts" -> <<"1", "1">>
      [] key = "segment" -> <<"9">>
      [] key = "overlap" -> <<"0", ".", "6">>

\* C14: a request whose shifts, segment or overlap is sent but is no number
\* gets the 400 response the same request gets with an out-of-range value
\* of that option, and no child is spawned.
C14_NonNumericRejected ==
    [][\A j \in Jobs : \A key \in {"shifts", "segment", "overlap"} :
         (Answers(j) /\ NonNumeric(form[j], key))
         => /\ hpc'[j] = "done"
            /\ hresp'[j] =
                 Response(400, Validate([form[j] EXCEPT ![key] = OutOfRange(key)]), {})
            /\ UNCHANGED childVars]_vars

\* C15: a request whose job id or option is outside its allow-list is
\* answered 400, and no status entry, registry entry, file or child is
\* created or changed.
C15_OutsideAllowListRejected ==
    [][\A j \in Jobs :
         (Answers(j) /\ OutsideAllowList(form[j]))
         => /\ hpc'[j] = "done"
            /\ hresp'[j].code = 400
            /\ NothingCreated]_vars

\* path separators, whitespace, a control character, shell metacharacters
UnsafeChars == {"/", "\\", " ", "\t", "\n", "\r", ";", "|", "$", "&"}

\* C16: validate_job_id(s) is true exactly for the strings of 1 to 255
\* characters whose first character is alphanumeric and whose others are
\* alphanumeric or hyphens; it is false for the empty and the missing id and
\* for every string holding a separator, whitespace (also as last
\* character), a control character or a shell metacharacter.
C16_ValidateJobIdExact ==
    id_ret # "pending"
    => /\ (id_ret = "True") = WellFormedId(id_arg)
       /\ ( \/ id_arg = NoId
            \/ Len(id_arg) = 0
            \/ \E i \in 1..Len(id_arg) : id_arg[i] \in UnsafeChars )
          => id_ret = "False"

\* the path p is the root R or lies below it
Inside(p, R) ==
    p = R \/ StartsWith(p, IF R = << Sep >> THEN R ELSE R \o << Sep >>)

\* a segment that is one name: not empty, no separator, not '.' or '..'
PlainName(seg) ==
    /\ Len(seg) >= 1
    /\ \A i \in 1..Len(seg) : seg[i] # Sep
    /\ seg # << "." >> /\ seg # << ".", "." >>

\* root/seg1/seg2/...
NaiveJoin(R, paths) == (IF R = << Sep >> THEN << >> ELSE R) \o FromRoot(paths)

\* C17: safe_join raises whenever the joined path resolves outside the
\* root, returns the resolved path whenever it resolves inside, and for a
\* canonical root and plain names returns root/seg1/seg2.
C17_SafeJoinContains ==
    join_ret.kind # "pending"
    => LET R == realpath(join_arg.base_dir)
           target == realpath(PathJoin(join_arg.base_dir, join_arg.paths))
       IN  /\ ~Inside(target, R) => join_ret = Raised
           /\ Inside(target, R) => join_ret = Returned(target)
           /\ ( /\ R = join_arg.base_dir
                /\ \A i \in 1..Len(join_arg.paths) : PlainName(join_arg.paths[i]) )
              => join_ret = Returned(NaiveJoin(R, join_arg.paths))

\* C17 witness: a sibling of the root whose name starts with the name of
\* the root was refused.
C17_Witness ==
    /\ join_ret = Raised
    /\ join_arg.base_dir = <<"/", "a">>
    /\ realpath(PathJoin(join_arg.base_dir, join_arg.paths)) = <<"/", "a", "b">>

\* the handler of the job has returned 200 `completed`
CompletedResponse(j) == hpc[j] = "done" /\ hresp[j].body = "completed"

\* the stems of a model: six for htdemucs_6s, four for every other model
StemsOfModel(m) ==
    IF m = "htdemucs_6s"
    THEN {"vocals", "drums", "bass", "guitar", "piano", "other"}
    ELSE {"vocals", "drums", "bass", "other"}

\* the file {name}_t2s_{key}.{ext} inside the output directory of the job
NamedIn(j, path, key, ext) ==
    /\ path.dir = j
    /\ path.key = key
    /\ path.ext = ext

C19_IsolateModeOutputs ==
    \A j \in Jobs :
        (CompletedResponse(j) /\ stem_mode(form[j]) = "isolate" /\ mix_returncode[j] = 0)
        => /\ Cardinality(DOMAIN hresp[j].details) = 2
           /\ DOMAIN hresp[j].details =
                { isolate_stem(form[j]),
                  IF isolate_stem(form[j]) = "vocals" THEN "instrumental" ELSE "backing" }

\* every cancel request has been answered
CancelsOver == \A c \in Cancellers : cpc[c] = "done"

\* C20: after a cancel that raced with the completion of a job, the files
\* match the final status: `completed` has the job's output directory and
\* every file of the response, `cancelled` has no output directory.
C20_FilesMatchWinner ==
    \A j \in Jobs :
        (CompletedResponse(j) /\ CancelSucceeded(j) /\ CancelsOver)
        => /\ processing_status[j].status = "completed"
              => /\ job_output_dir[j]
                 /\ \A key \in DOMAIN hresp[j].details :
                      hresp[j].details[key] \in job_files[j]
           /\ processing_status[j].status = "cancelled" => ~job_output_dir[j]

\* a step taken for job a: of its handler, its threads, its child, or of a
\* cancel request for it
StepFor(a) ==
    \/ hpc'[a] # hpc[a]
    \/ rpc'[a] # rpc[a]
    \/ epc'[a] # epc[a]
    \/ child'[a] # child[a]
    \/ \E c \in Cancellers : cpc'[c] # cpc[c] /\ cjob'[c] = a

\* the entry of a job in a dict: the set holding its value, empty if absent
EntryOf(d, k) == IF k \in DOMAIN d THEN {d[k]} ELSE {}

\* C21: for two distinct job ids a and b, no step taken for job a changes the
\* entry of job b in the status store or in the registry.
C21_OtherJobUntouched ==
    [][\A a \in AllJobs : \A b \in AllJobs \ {a} :
         StepFor(a)
         => /\ EntryOf(processing_status', b) = EntryOf(processing_status, b)
            /\ EntryOf(active_processes', b) = EntryOf(active_processes, b)]_vars

\* C21 witness: a cancel has succeeded for one job while the other job is
\* registered with its child running and its status `processing`.
C21_Witness ==
    \E a \in AllJobs : \E b \in AllJobs \ {a} :
        /\ \E c \in Cancellers :
              cpc[c] = "done" /\ cjob[c] = a /\ cresp[c].body = "cancelled"
        /\ cancel_killed[a]
        /\ b \in DOMAIN active_processes
        /\ child[b] = "running"
        /\ processing_status[b].status = "processing"

\* C22: every snapshot stored for a job has a progress value in 0..100,
\* whatever percentage or current/total fraction the tool prints.
C22_ProgressInRange ==
    \A id \in DOMAIN processing_status : processing_status[id].progress \in 0..100

StatusAnswered == << status_arg, status_ret >>' # << status_arg, status_ret >>

\* C24: a /status request for a valid job id returns the snapshot stored for
\* it, or the sentinel `unknown` with progress 0 when none is stored; an id
\* the pattern rejects is answered 400; no request creates or changes an
\* entry of the status store.
C24_StatusReadsOnly ==
    [][StatusAnswered
       => /\ processing_status' = processing_status
          /\ active_processes' = active_processes
          /\ IF ~validate_job_id(status_arg')
             THEN status_ret'.code = 400
             ELSE IF status_arg' \in DOMAIN processing_status
             THEN status_ret'.body = processing_status[status_arg']
             ELSE status_ret'.body = [status |-> "unknown", progress |-> 0]]_vars

\* C24 witness: a /status request was answered with the snapshot
\* `cancelled` of a job whose entry is still that snapshot.
C24_Witness ==
    \E j \in Jobs :
        /\ status_arg = j
        /\ Stored(j)
        /\ status_ret.body = processing_status[j]
        /\ processing_status[j].status = "cancelled"

\* C25: the estimator decides to write only when, under progress_lock, the
\* stored status is `processing`, its value exceeds last_progress and
\* last_progress is below 85; the snapshot it writes has status `processing`
\* and a progress in 10..85.
C25_EstimatorGuarded ==
    [][\A j \in Jobs :
         /\ (epc[j] = "test" /\ epc'[j] = "write")
            => /\ progress_lock'[j] = "estimator"
               /\ StoredStatus(j) = "processing"
               /\ etp[j] > last_progress[j]
               /\ last_progress[j] < 85
         /\ (epc[j] = "write" /\ epc'[j] = "loop")
            => /\ processing_status'[j].status = "processing"
               /\ processing_status'[j].progress \in 10..85]_vars

\* C25 witness: the estimator has written its highest value, 85, after the
\* estimated duration has passed.
C25_Witness ==
    \E j \in Jobs :
        /\ Stored(j)
        /\ processing_status[j] = Snapshot("processing", 85, "Processing audio")
        /\ elapsed[j] = MaxLongTicks

\* the stems whose file the tool left is gone after the step
SourcesRemoved(j) ==
    {file.stem : file \in demucs_files[j]} \ {file.stem : file \in demucs_files'[j]}

\* the step of the relocation loops (lines 587-663)
Relocates(j) == hpc[j] = "assemble" /\ hpc'[j] # "assemble"

\* C26: with format flac, the relocation removes the pre-conversion file of
\* a stem only when the .flac of that stem exists; when a conversion fails,
\* the pre-conversion file of a found stem is kept and is no output, and the
\* handler ends with status `failed` and a non-2xx response without outputs.
C26_FlacConversion ==
    [][\A j \in Jobs :
         output_format(form[j]) = "flac"
         => /\ Relocates(j)
               => \A stem \in SourcesRemoved(j) :
                     /\ OutputPath(j, stem, "flac") \in job_files'[j]
                     /\ stem \in DOMAIN output_files'[j]
            /\ (Relocates(j) /\ hpc'[j] = "except")
               => \E stem \in Relocated(j) :
                     /\ stem \in {file.stem : file \in demucs_files'[j]}
                     /\ stem \notin DOMAIN output_files'[j]
                     /\ \A other \in Relocated(j) :
                          StemIndex(other) < StemIndex(stem)
                          => other \in DOMAIN output_files'[j]
            /\ (hpc[j] = "except" /\ hpc'[j] = "done")
               => /\ processing_status'[j].status = "failed"
                  /\ hresp'[j].code \notin 200..299
                  /\ hresp'[j].details = {}
                  /\ demucs_files'[j] = demucs_files[j]]_vars

\* C26 witness: a flac job whose third conversion failed has ended `failed`
\* with the .wav of the failed stem kept and two .flac files written.
C26_Witness ==
    \E j \in Jobs :
        /\ output_format(form[j]) = "flac"
        /\ hpc[j] = "done"
        /\ hresp[j].code = 500
        /\ processing_status[j].status = "failed"
        /\ [stem |-> "bass", ext |-> "wav"] \in demucs_files[j]
        /\ DOMAIN output_files[j] = {"vocals", "drums"}
        /\ OutputPath(j, "drums", "flac") \in job_files[j]

\* C27: in isolate mode, when the mixer fails the job goes on to end with
\* status `completed`, progress 100 and a 200 response, and the outputs hold
\* the isolated stem and no `instrumental` or `backing` entry.
C27_MixFailureNotFatal ==
    [][\A j \in Jobs :
         (stem_mode(form[j]) = "isolate" /\ mix_returncode'[j] = 1)
         => /\ Relocates(j)
               => /\ hpc'[j] = "cleanup"
                  /\ DOMAIN output_files'[j] = {isolate_stem(form[j])}
            /\ (hpc[j] = "cleanup" /\ hpc'[j] # "cleanup")
               => processing_status'[j] = Snapshot("completed", 100, "Complete!")
            /\ (hpc[j] = "unreg" /\ hpc'[j] = "done")
               => /\ hresp'[j].code = 200
                  /\ hresp'[j].body = "completed"
                  /\ DOMAIN hresp'[j].details = {isolate_stem(form[j])}]_vars

\* C28: once the stop signal of a job is set, both threads end; and the
\* handler of every admitted job returns a response.
C28_ThreadsStopHandlerReturns ==
    \A j \in Jobs :
        /\ stop_threads[j] ~> ThreadsDone(j)
        /\ (hpc[j] = "admitted") ~> (hpc[j] = "done" /\ hresp[j] # NoResponse)

\* C28 witness: the handler has returned after a join window that ended with
\* the reader still parsing a line, and both threads have ended since.
C28_Witness ==
    \E j \in Jobs :
        /\ hpc[j] = "done"
        /\ hresp[j] # NoResponse
        /\ stop_threads[j]
        /\ ThreadsDone(j)
        /\ Stored(j) /\ processing_status[j].status = "processing"

\* the /cancel request c has been answered `cancelled` for job id
Cancelled(c, id) ==
    cpc[c] = "done" /\ cjob[c] = id /\ cresp[c] = Response(200, "cancelled", {})

\* what a /cancel request that finds no entry may change: its own response
NothingButAnswer ==
    UNCHANGED << form, outputVars, callVars, statusVars, registryVars, handlerVars, childVars,
                 stop_threads, progressVars, readerVars, estimatorVars, elapsed,
                 fileVars, fdVars, cancel_killed >>

\* C29: of the /cancel requests for one job, a request taken while the
\* registry holds the job's entry is the one that cancels: it ends the child
\* and returns `cancelled`, and no other request for the job ever does; a
\* request taken while there is no entry returns not-found (404) and changes
\* nothing.
C29_OneCancelWins ==
    [][\A c \in CancelRequests :
        /\ (cpc[c] = "idle" /\ cpc'[c] # "idle") =>
              IF InRegistry(cjob'[c])
              THEN /\ cpc'[c] = "kill"
                   /\ \A b \in CancelRequests \ {c} : cpc[b] # "idle" => Cancelled(b, cjob[b]) \/ cresp[b].code = 404
                   /\ \A b \in CancelRequests : ~Cancelled(b, cjob'[c])
              ELSE /\ cpc'[c] = "done"
                   /\ cresp'[c] = Response(404, "not_found", {})
                   /\ NothingButAnswer
        /\ (cpc[c] \in {"kill", "mark", "clean"} /\ cpc'[c] = "done") =>
              /\ cresp'[c] = Response(200, "cancelled", {})
              /\ child'[cjob[c]] # "running"
              /\ ~(cjob[c] \in DOMAIN active_processes')
              /\ \A b \in CancelRequests \ {c} : ~Cancelled(b, cjob[c])]_vars

\* C29 witness: two requests for the job were answered, one while the child
\* ran (cancelled, child terminated) and one not-found.
C29_Witness ==
    \E j \in Jobs : \E c, b \in CancelRequests :
        /\ Cancelled(c, j)
        /\ cancel_killed[j]
        /\ cpc[b] = "done" /\ cjob[b] = j /\ cresp[b] = Response(404, "not_found", {})
        /\ c < b

\* C30: while the child of a job runs and no cancel has succeeded for the
\* job, the registry holds the job's entry; and no /cancel request for a job
\* whose child is running is answered not-found.
C30_RunningChildRegistered ==
    [][/\ \A j \in Jobs :
            (child'[j] = "running" /\ ~CancelSucceeded(j)') => j \in DOMAIN active_processes'
       /\ \A c \in Cancellers :
            (cpc[c] = "idle" /\ cpc'[c] = "done" /\ cresp'[c].code = 404) =>
                child[cjob'[c]] # "running"]_vars

\* the handler of job a assembles or cleans up in this step
Finishing(a) == hpc[a] \in {"assemble", "cleanup"} /\ hpc'[a] # hpc[a]

\* C31: while the handler of a job assembles its outputs and cleans up, the
\* tool directory of every other job and the files in it stay as they are.
C31_OwnIntermediateOnly ==
    [][\A a \in AllJobs : \A b \in AllJobs \ {a} :
          Finishing(a) =>
              /\ demucs_dir'[b] = demucs_dir[b]
              /\ demucs_files'[b] = demucs_files[b]]_vars

\* a step of the handler of job j, a join window ending by its timeout included
HandlerMoves(j) == HandlerStep(j) \/ AssembleFailsFirst(j) \/ JoinAbandon(j)

\* the thread holding process_lock can take its next step
RegistryHolderMoves == \A c \in Cancellers : process_lock = c => ENABLED CancelProceeds(c)

\* the thread holding the progress_lock of job j can take its next step
ProgressHolderMoves(j) == progress_lock[j] # "free" => ENABLED EstimatorWrite(j)

\* no thread that has begun and not ended is stuck: it can step, or it waits
\* for a lock whose holder can step
NoThreadStuck ==
    \A j \in Jobs :
        /\ hpc[j] \notin {"idle", "done"} =>
              ENABLED HandlerMoves(j) \/ (process_lock # 0 /\ RegistryHolderMoves)
        /\ rpc[j] \in {"loop", "parse"} =>
              ENABLED ReaderStep(j) \/ (progress_lock[j] # "free" /\ ProgressHolderMoves(j))
        /\ epc[j] \in {"loop", "test", "write"} => ENABLED EstimatorStep(j)

\* C32: the thread that holds process_lock never waits for a progress_lock
\* and the thread that holds a progress_lock never waits for process_lock
\* (each can always take its next step, and no step takes one lock while
\* releasing or taking the other); a handler waiting for its threads holds
\* no lock and its wait can end; so no thread is ever stuck.
C32_LocksApartNoDeadlock ==
    /\ [](/\ RegistryHolderMoves
          /\ \A j \in Jobs : ProgressHolderMoves(j)
          /\ \A j \in Jobs : hpc[j] \in {"join", "tjoin"} =>
                 /\ \A c \in Cancellers : process_lock = c => cpc[c] \in {"kill", "mark", "clean"}
                 /\ ENABLED (Join(j) \/ JoinAbandon(j))
          /\ NoThreadStuck)
    /\ [][/\ process_lock' # process_lock => progress_lock' = progress_lock
          /\ progress_lock' # progress_lock => process_lock' = process_lock]_vars

\* C32 witness: a cancel request holds process_lock while the estimator
\* holds the job's progress_lock and the handler waits in a join.
C32_Witness ==
    \E j \in Jobs : \E c \in Cancellers :
        /\ process_lock = c /\ cjob[c] = j
        /\ progress_lock[j] # "free"
        /\ hpc[j] \in {"join", "tjoin"}
        /\ rpc[j] = "parse"

====
